---- MODULE Spec2Model ----
(***************************************************************************)
(* Transport adapter of the OpenBCI bridge (backend/python/                *)
(* openbci_bridge.py): the module-level session state and the five         *)
(* operations init_board, check_connection, start_recording,               *)
(* stop_recording and disconnect, with the visualizer helpers they call.   *)
(* The acquisition library is the environment: every call on a board       *)
(* either raises or takes effect, as chosen by the inputs of the action.   *)
(*                                                                         *)
(* The visualizer process (backend/python/brainwave_visualizer.py) follows *)
(* in the second half: its ingest thread (standard input, file replay or   *)
(* generator) under SpecViz, and update_plot with the toggles under        *)
(* SpecFrame.                                                              *)
(***************************************************************************)
EXTENDS Integers, Sequences, FiniteSets, TLC

\* ------------------------------------------------------------------ bounds
\* largest number of samples one bulk retrieval returns
MaxSamples == 2
\* largest number of relay threads that outlive a timed-out join
MaxOrphans == 1

\* ------------------------------------------------------- values and records
CYTON_DAISY_BOARD == "CYTON_DAISY_BOARD"
CYTON_BOARD == "CYTON_BOARD"
NoId == "None"

\* A BoardShim object: its configuration and what the library holds for it.
NoBoard == [board_id |-> NoId, prepared |-> FALSE, streaming |-> FALSE]
BoardShim(board_id) == [board_id |-> board_id, prepared |-> FALSE, streaming |-> FALSE]

\* Handles an operation can hold: the board tracked on entry, the board of
\* the 16-channel attempt and the board of the 8-channel attempt.
Slots == {"cur", "A", "B"}

\* Messages and exceptions: a fixed text and the underlying errors it embeds.
NoExc == [text |-> "<no exception>", errs |-> <<>>]
NoMessage == [text |-> "<no message>", errs |-> <<>>]
LibErr(call, slot) == [text |-> "", errs |-> << <<call, slot>> >>]
Msg(text) == [text |-> text, errs |-> <<>>]
Fmt1(text, e) == [text |-> text, errs |-> e.errs]
Fmt2(text, e1, e2) == [text |-> text, errs |-> e1.errs \o e2.errs]

NoRet == [status |-> "none", message |-> NoMessage, board_type |-> "", samples |-> -1, channels |-> -1]
Result(status, message, board_type) ==
    [status |-> status, message |-> message, board_type |-> board_type, samples |-> -1, channels |-> -1]
BoardType(board_id) == IF board_id = CYTON_DAISY_BOARD THEN "cyton_daisy" ELSE "cyton"
\* BoardShim.get_eeg_channels / get_timestamp_channel: rows of the data matrix
get_eeg_channels(board_id) ==
    IF board_id = CYTON_DAISY_BOARD THEN [j \in 1..16 |-> j] ELSE [j \in 1..8 |-> j]
get_timestamp_channel(board_id) == IF board_id = CYTON_DAISY_BOARD THEN 30 ELSE 22

\* the matrix get_board_data returns: one row per board channel, one column
\* per sample; values are floating-point numbers kept in tenths.  Column i
\* carries the payload pay[i]; timestamps grow with the column.
Payloads == {1, 2}
Value(p, r) == ((p * 7 + r * 3) % 41) - 20
Timestamp(i) == 100 + i
BoardData(board_id, pay) ==
    [r \in 0..get_timestamp_channel(board_id) |->
        [i \in 1..Len(pay) |->
            IF r = get_timestamp_channel(board_id) THEN Timestamp(i)
            ELSE IF r \in 1..Len(get_eeg_channels(board_id)) THEN Value(pay[i], r)
            ELSE 0]]

\* str() of a float: sign, integer digits, point, decimals
Digits == <<"0", "1", "2", "3", "4", "5", "6", "7", "8", "9">>
RECURSIVE NatChars(_)
NatChars(n) ==
    IF n < 10 THEN <<Digits[n + 1]>>
    ELSE NatChars(n \div 10) \o <<Digits[(n % 10) + 1]>>
Abs(v) == IF v < 0 THEN -v ELSE v
str(v) ==
    (IF v < 0 THEN <<"-">> ELSE << >>)
        \o NatChars(Abs(v) \div 10) \o <<".", Digits[(Abs(v) % 10) + 1]>>

\* sep.join(parts)
RECURSIVE Join(_, _)
Join(sep, parts) ==
    IF parts = << >> THEN << >>
    ELSE IF Len(parts) = 1 THEN parts[1]
    ELSE parts[1] \o <<sep>> \o Join(sep, Tail(parts))

\* ------------------------------------------------------------ library calls
LibCalls == {"prepare_session", "start_stream", "get_board_data", "stop_stream", "release_session"}

Effect(call, b) ==
    CASE call = "prepare_session" -> [b EXCEPT !.prepared = TRUE]
      [] call = "start_stream" -> [b EXCEPT !.streaming = TRUE]
      [] call = "stop_stream" -> [b EXCEPT !.streaming = FALSE]
      [] call = "release_session" -> [b EXCEPT !.prepared = FALSE, !.streaming = FALSE]
      [] OTHER -> b

\* One statement `board.call()`: skipped when an exception is already in
\* flight or the function has returned, else logged and either raising or
\* taking effect.
Call(c, slot, call) ==
    IF c.exc # NoExc \/ c.ret # NoRet THEN c
    ELSE LET ok == call \notin c.env[slot]
         IN [c EXCEPT !.calls = Append(@, [call |-> call, slot |-> slot, ok |-> ok]),
                      !.obj[slot] = IF ok THEN Effect(call, @) ELSE @,
                      !.exc = IF ok THEN NoExc ELSE LibErr(call, slot)]

\* One statement `board = BoardShim(board_id, params)`.
New(c, slot, board_id) ==
    IF c.exc # NoExc \/ c.ret # NoRet THEN c
    ELSE LET ok == "BoardShim" \notin c.env[slot]
         IN [c EXCEPT !.calls = Append(@, [call |-> "BoardShim", slot |-> slot, ok |-> ok]),
                      !.obj[slot] = IF ok THEN BoardShim(board_id) ELSE @,
                      !.exc = IF ok THEN NoExc ELSE LibErr("BoardShim", slot)]

\* `current_board = board; current_board_id = board_id; is_streaming = s`
Track(c, slot, board_id, s) ==
    IF c.exc # NoExc \/ c.ret # NoRet THEN c
    ELSE [c EXCEPT !.ref = slot, !.id = board_id, !.st = s]

\* `current_board = None; current_board_id = None; is_streaming = False`
Reset(c) ==
    IF c.exc # NoExc \/ c.ret # NoRet THEN c
    ELSE [c EXCEPT !.ref = "none", !.id = NoId, !.st = FALSE]

Return(c, r) == IF c.exc # NoExc \/ c.ret # NoRet THEN c ELSE [c EXCEPT !.ret = r]
Raise(c, e) == IF c.exc # NoExc \/ c.ret # NoRet THEN c ELSE [c EXCEPT !.exc = e]
\* entering an `except` clause: the exception is caught
Caught(c) == [c EXCEPT !.exc = NoExc]
\* leaving the try block of one hardware configuration
Attempted(c, board_id) ==
    [c EXCEPT !.attempts = Append(@, [cfg |-> board_id, ok |-> c.exc = NoExc])]


\* `is_streaming = v`
SetStreaming(c, v) == IF c.exc # NoExc \/ c.ret # NoRet THEN c ELSE [c EXCEPT !.st = v]

\* `try: board.call()  except Exception as e: print(...)` (disconnect)
CallQuiet(c, slot, call) ==
    IF c.exc # NoExc \/ c.ret # NoRet THEN c ELSE Caught(Call(c, slot, call))

\* --------------------------------------------------------------- visualizer
\* start_visualizer: no-op when a visualizer process is tracked; a failing
\* Popen is caught and changes nothing; otherwise the process is tracked,
\* stream_running set and a new relay thread started (the thread object
\* previously held in data_thread is dropped, alive or not).
start_visualizer(c) ==
    IF c.exc # NoExc \/ c.ret # NoRet THEN c
    ELSE IF c.vp THEN c
    ELSE IF ~c.env.popen
    THEN [c EXCEPT !.calls = Append(@, [call |-> "Popen", slot |-> "visualizer", ok |-> FALSE])]
    ELSE [c EXCEPT !.calls = Append(@, [call |-> "Popen", slot |-> "visualizer", ok |-> TRUE]),
                   !.vp = TRUE, !.sr = TRUE, !.dt = "alive",
                   !.orph = IF c.dt = "alive" THEN @ + 1 ELSE @,
                   !.spawned = @ + 1]

\* stop_visualizer: clears stream_running, joins a live relay thread for at
\* most two seconds (the join may time out) and drops the process.
\* variant: the data thread is not joined
stop_visualizer_no_join(c) ==
    IF c.exc # NoExc \/ c.ret # NoRet THEN c
    ELSE [c EXCEPT !.sr = FALSE, !.vp = FALSE]

stop_visualizer(c) ==
    IF c.exc # NoExc \/ c.ret # NoRet THEN c
    ELSE [c EXCEPT !.sr = FALSE,
                   !.dt = IF @ = "alive" /\ c.env.join THEN "dead" ELSE @,
                   !.joins = IF c.dt = "alive" THEN @ + 1 ELSE @,
                   !.vp = FALSE]

Unavailable == Result("error", Msg("BrainFlow library not available"), "")

\* --------------------------------------------------------------- init_board
\* variant: the prepared board is not stored in the globals
init_board_try_no_store(c, slot, board_id) ==
    Attempted(
        Return(Call(New(c, slot, board_id), slot, "prepare_session"),
               Result("success",
                      Msg(IF board_id = CYTON_DAISY_BOARD
                          THEN "Cyton+Daisy board connected successfully"
                          ELSE "Cyton board connected successfully"),
                      BoardType(board_id))),
        board_id)

init_board_try(c, slot, board_id) ==
    Attempted(
        Return(Track(Call(New(c, slot, board_id), slot, "prepare_session"), slot, board_id, FALSE),
               Result("success",
                      Msg(IF board_id = CYTON_DAISY_BOARD
                          THEN "Cyton+Daisy board connected successfully"
                          ELSE "Cyton board connected successfully"),
                      BoardType(board_id))),
        board_id)

init_board_except(c) == Return(Caught(c), Result("error", c.exc, ""))

\* variant: the 8-channel configuration is tried first
init_board_cyton_first(c) ==
    IF ~c.avail THEN Return(c, Unavailable)
    ELSE LET a == init_board_try(c, "A", CYTON_BOARD)
         IN IF a.exc = NoExc THEN a
            ELSE LET b == init_board_try(Caught(a), "B", CYTON_DAISY_BOARD)
                 IN IF b.exc = NoExc THEN b
                    ELSE init_board_except(
                             Raise(Caught(b), Fmt2("Could not connect to either board type", a.exc, b.exc)))

init_board(c) ==
    IF ~c.avail THEN Return(c, Unavailable)
    ELSE LET a == init_board_try(c, "A", CYTON_DAISY_BOARD)
         IN IF a.exc = NoExc THEN a
            ELSE LET b == init_board_try(Caught(a), "B", CYTON_BOARD)
                 IN IF b.exc = NoExc THEN b
                    ELSE init_board_except(
                             Raise(Caught(b), Fmt2("Could not connect to either board type", a.exc, b.exc)))

\* --------------------------------------------------------- check_connection
check_connection_existing(c) ==
    IF c.ref = "none" THEN c
    ELSE LET t == Call(c, c.ref, "get_board_data")
         IN IF t.exc = NoExc
            THEN Return(t, Result("success", NoMessage, BoardType(t.id)))
            ELSE Reset(Caught(t))

\* variant: the prepared board is not stored in the globals
check_connection_try_no_store(c, slot, board_id) ==
    Attempted(
        Return(Call(New(c, slot, board_id), slot, "prepare_session"),
               Result("success", NoMessage, BoardType(board_id))),
        board_id)

check_connection_try(c, slot, board_id) ==
    Attempted(
        Return(Track(Call(New(c, slot, board_id), slot, "prepare_session"), slot, board_id, FALSE),
               Result("success", NoMessage, BoardType(board_id))),
        board_id)

check_connection(c) ==
    IF ~c.avail THEN Return(c, Unavailable)
    ELSE LET t == check_connection_existing(c)
         IN IF t.ret # NoRet THEN t
            ELSE LET a == check_connection_try(t, "A", CYTON_DAISY_BOARD)
                 IN IF a.exc = NoExc THEN a
                    ELSE LET b == check_connection_try(Caught(a), "B", CYTON_BOARD)
                         IN IF b.exc = NoExc THEN b
                            ELSE Return(Reset(Caught(b)), Result("error", b.exc, ""))

\* ---------------------------------------------------------- start_recording
\* variant: the streaming flag is not set after a successful start_stream
start_recording_existing_no_flag(c) ==
    IF c.ref # "none" /\ ~c.st
    THEN LET t == Call(c, c.ref, "start_stream")
         IN IF t.exc = NoExc
            THEN Return(start_visualizer(t),
                        Result("success", Msg("Recording started with existing board connection"),
                               BoardType(t.id)))
            ELSE Reset(Caught(t))
    ELSE c

start_recording_existing(c) ==
    IF c.ref # "none" /\ ~c.st
    THEN LET t == SetStreaming(Call(c, c.ref, "start_stream"), TRUE)
         IN IF t.exc = NoExc
            THEN Return(start_visualizer(t),
                        Result("success", Msg("Recording started with existing board connection"),
                               BoardType(t.id)))
            ELSE Reset(Caught(t))
    ELSE c

start_recording_already(c) ==
    IF c.ret = NoRet /\ c.st
    THEN Return(start_visualizer(c), Result("success", Msg("Already recording"), BoardType(c.id)))
    ELSE c

\* variant: the started board is not stored in the globals
start_recording_try_no_track(c, slot, board_id) ==
    Attempted(
        Return(start_visualizer(
                   Call(Call(New(c, slot, board_id), slot, "prepare_session"), slot, "start_stream")),
               Result("success",
                      Msg(IF board_id = CYTON_DAISY_BOARD
                          THEN "Recording started with Cyton+Daisy board"
                          ELSE "Recording started with Cyton board"),
                      BoardType(board_id))),
        board_id)

start_recording_try(c, slot, board_id) ==
    Attempted(
        Return(start_visualizer(
                   Track(Call(Call(New(c, slot, board_id), slot, "prepare_session"), slot, "start_stream"),
                         slot, board_id, TRUE)),
               Result("success",
                      Msg(IF board_id = CYTON_DAISY_BOARD
                          THEN "Recording started with Cyton+Daisy board"
                          ELSE "Recording started with Cyton board"),
                      BoardType(board_id))),
        board_id)

start_recording_except(c) == Return(Caught(c), Result("error", c.exc, ""))

start_recording(c) ==
    IF ~c.avail THEN Return(c, Unavailable)
    ELSE LET t == start_recording_already(start_recording_existing(c))
         IN IF t.ret # NoRet THEN t
            ELSE LET a == start_recording_try(t, "A", CYTON_DAISY_BOARD)
                 IN IF a.exc = NoExc THEN a
                    ELSE LET b == start_recording_try(Caught(a), "B", CYTON_BOARD)
                         IN IF b.exc = NoExc THEN b
                            ELSE start_recording_except(
                                     Raise(Caught(b),
                                           Fmt2("Could not start recording with either board type",
                                                a.exc, b.exc)))


\* ----------------------------------------------------------- stop_recording
NoFile == [written |-> FALSE, text |-> << >>]

\* `data = board.get_board_data()`: the bulk retrieval yields the samples env.pay
GetData(c, slot) ==
    LET t == Call(c, slot, "get_board_data")
    IN IF t.exc = NoExc /\ t.ret = NoRet
       THEN [t EXCEPT !.data = Len(c.env.pay), !.pay = c.env.pay]
       ELSE t

\* `board_id = ...` (local variable of stop_recording)
SetLocalId(c, board_id) == IF c.exc # NoExc \/ c.ret # NoRet THEN c ELSE [c EXCEPT !.bid = board_id]

\* the tracked, streaming board: retrieve, stop the stream, stop the
\* visualizer; any exception stops the visualizer and returns an error
stop_recording_existing(c) ==
    LET t == stop_visualizer(
                 SetLocalId(
                     SetStreaming(Call(GetData(c, c.ref), c.ref, "stop_stream"), FALSE),
                     c.id))
    IN IF t.exc = NoExc THEN t
       ELSE Return(stop_visualizer(Caught(t)),
                   Result("error", Fmt1("Error getting data from board", t.exc), ""))

stop_recording_try(c, slot, board_id) ==
    Attempted(
        stop_visualizer(
            Call(Call(GetData(Call(Call(New(SetLocalId(c, board_id), slot, board_id),
                                        slot, "prepare_session"),
                                   slot, "start_stream"),
                              slot),
                      slot, "stop_stream"),
                 slot, "release_session")),
        board_id)

stop_recording_fresh(c) ==
    LET a == stop_recording_try(c, "A", CYTON_DAISY_BOARD)
    IN IF a.exc = NoExc THEN a
       ELSE LET b == stop_recording_try(Caught(a), "B", CYTON_BOARD)
            IN IF b.exc = NoExc THEN b
               ELSE Raise(stop_visualizer(Caught(b)),
                          Fmt2("Could not connect to either board type", a.exc, b.exc))

\* lines 462-521: the emptiness check, the CSV file (header plus one row per
\* sample, one column per EEG channel) and the success record
\* variant: the rows are written newest sample first
csv_content_newest_first(data, board_id) ==
    LET eeg_channels == get_eeg_channels(board_id)
        eeg_data == [j \in 1..Len(eeg_channels) |-> data[eeg_channels[j]]]
        header == <<"timestamp", ",">>
                      \o Join(",", [i \in 1..Len(eeg_channels) |-> <<"channel_" \o ToString(i)>>])
        timestamps == data[get_timestamp_channel(board_id)]
        n == Len(eeg_data[1])
        row(i) == str(timestamps[i]) \o <<",">>
                      \o Join(",", [j \in 1..Len(eeg_channels) |-> str(eeg_data[j][i])])
    IN <<header>> \o [i \in 1..n |-> row(n + 1 - i)]

\* lines 486-499: the header and one row per column of the matrix
csv_content(data, board_id) ==
    LET eeg_channels == get_eeg_channels(board_id)
        eeg_data == [j \in 1..Len(eeg_channels) |-> data[eeg_channels[j]]]
        header == <<"timestamp", ",">>
                      \o Join(",", [i \in 1..Len(eeg_channels) |-> <<"channel_" \o ToString(i)>>])
        timestamps == data[get_timestamp_channel(board_id)]
        row(i) == str(timestamps[i]) \o <<",">>
                      \o Join(",", [j \in 1..Len(eeg_channels) |-> str(eeg_data[j][i])])
    IN <<header>> \o [i \in 1..Len(eeg_data[1]) |-> row(i)]

\* variant: no emptiness check before the file is written
stop_recording_save_no_check(c) ==
    IF c.exc # NoExc \/ c.ret # NoRet THEN c
    ELSE IF ~c.env.mkdir
    THEN Raise(c, LibErr("makedirs", "file"))
    ELSE IF ~c.env.write
    THEN Raise(c, LibErr("open", "file"))
    ELSE LET data == BoardData(c.bid, c.pay)
         IN Return(stop_visualizer(
                       [c EXCEPT !.file = [written |-> TRUE,
                                           text |-> Join("\n", csv_content(data, c.bid))]]),
                   [status |-> "success", message |-> Msg("Recording stopped and data saved"),
                    board_type |-> BoardType(c.bid), samples |-> Len(data[1]),
                    channels |-> Len(get_eeg_channels(c.bid))])

\* lines 462-521: the output directory, the emptiness check, the CSV file
\* and the success record
stop_recording_save(c) ==
    IF c.exc # NoExc \/ c.ret # NoRet THEN c
    ELSE IF ~c.env.mkdir
    THEN Raise(c, LibErr("makedirs", "file"))
    ELSE IF c.data = 0
    THEN Return(c, Result("error", Msg("No data was collected during recording"), ""))
    ELSE IF ~c.env.write
    THEN Raise(c, LibErr("open", "file"))
    ELSE LET data == BoardData(c.bid, c.pay)
         IN Return(stop_visualizer(
                       [c EXCEPT !.file = [written |-> TRUE,
                                           text |-> Join("\n", csv_content(data, c.bid))]]),
                   [status |-> "success", message |-> Msg("Recording stopped and data saved"),
                    board_type |-> BoardType(c.bid), samples |-> Len(data[1]),
                    channels |-> Len(get_eeg_channels(c.bid))])

\* variant: no outer handler, the exception propagates to the caller
stop_recording_no_except(c) == c

stop_recording_except(c) ==
    IF c.exc = NoExc THEN c
    ELSE Return(stop_visualizer(Caught(c)), Result("error", c.exc, ""))

stop_recording(c) ==
    IF ~c.avail THEN Return(c, Unavailable)
    ELSE stop_recording_except(
             stop_recording_save(
                 IF c.ref # "none" /\ c.st THEN stop_recording_existing(c)
                 ELSE stop_recording_fresh(c)))

\* --------------------------------------------------------------- disconnect
\* the tracked board: stop the visualizer, stop the stream if is_streaming,
\* release the session, clear the globals; any exception stops the visualizer
\* and clears the globals, and control falls through to a fresh connection
disconnect_existing(c) ==
    IF c.ref = "none" THEN c
    ELSE LET v == stop_visualizer(c)
             s == IF v.st THEN Call(v, v.ref, "stop_stream") ELSE v
             t == Reset(Call(s, s.ref, "release_session"))
         IN IF t.exc = NoExc
            THEN Return(t, Result("success", Msg("Board disconnected successfully"), ""))
            ELSE Reset(stop_visualizer(Caught(t)))

\* variant: the fresh board's session is not released
disconnect_try_no_release(c, slot, board_id) ==
    Attempted(
        Return(stop_visualizer(CallQuiet(New(c, slot, board_id), slot, "stop_stream")),
               Result("success", Msg("board disconnected"), "")),
        board_id)

disconnect_try(c, slot, board_id) ==
    Attempted(
        Return(stop_visualizer(
                   CallQuiet(CallQuiet(New(c, slot, board_id), slot, "stop_stream"),
                             slot, "release_session")),
               Result("success",
                      Msg(IF board_id = CYTON_DAISY_BOARD
                          THEN "Cyton+Daisy board disconnected"
                          ELSE "Cyton board disconnected"),
                      "")),
        board_id)

disconnect_except(c) ==
    IF c.exc = NoExc THEN c
    ELSE Return(Reset(stop_visualizer(Caught(c))), Result("error", c.exc, ""))

\* variant: no availability check on entry
disconnect_unguarded(c) ==
    disconnect_except(
        LET t == disconnect_existing(c)
        IN IF t.ret # NoRet THEN t
           ELSE LET a == disconnect_try(t, "A", CYTON_DAISY_BOARD)
                IN IF a.exc = NoExc THEN a
                   ELSE LET b == disconnect_try(Caught(a), "B", CYTON_BOARD)
                        IN IF b.exc = NoExc THEN b
                           ELSE Return(stop_visualizer(Caught(b)),
                                       Result("error",
                                              Fmt2("Could not disconnect from either board type",
                                                   a.exc, b.exc), "")))

disconnect(c) ==
    IF ~c.avail THEN Return(c, Unavailable)
    ELSE disconnect_except(
             LET t == disconnect_existing(c)
             IN IF t.ret # NoRet THEN t
                ELSE LET a == disconnect_try(t, "A", CYTON_DAISY_BOARD)
                     IN IF a.exc = NoExc THEN a
                        ELSE LET b == disconnect_try(Caught(a), "B", CYTON_BOARD)
                             IN IF b.exc = NoExc THEN b
                                ELSE Return(stop_visualizer(Caught(b)),
                                            Result("error",
                                                   Fmt2("Could not disconnect from either board type",
                                                        a.exc, b.exc), "")))

\* -------------------------------------------------------------------- state
VARIABLES
    BRAINFLOW_AVAILABLE,  \* whether the acquisition library was imported
    current_board,        \* the tracked BoardShim object, or NoBoard (None)
    current_board_id,     \* its BoardIds value, or NoId (None)
    is_streaming,         \* the streaming flag
    visualizer_process,   \* TRUE iff a visualizer process is tracked
    stream_running,       \* the relay thread's run flag
    data_thread,          \* "None", or the state of the thread it refers to
    orphans,              \* live relay threads data_thread no longer refers to
    relay,                \* what the relay thread's iteration did since the last operation
    cli,                  \* the command-line run: position of __main__ and standard output
    board_data,           \* the samples of the board's buffer and what the relay thread did with them
    last                  \* the last operation: inputs, calls made, result

bridge_vars == <<board_data, BRAINFLOW_AVAILABLE, current_board, current_board_id, is_streaming,
                 visualizer_process, stream_running, data_thread, orphans, relay, cli, last>>

\* The visualizer process (brainwave_visualizer.py): its module globals, the
\* wall clock, and the position of its one ingest thread.
VARIABLES
    setup,                \* how the process was started: source, platform, board type
    clock,                \* time.time(), in ticks
    running,              \* the run flag
    stream_active,        \* the stream-active flag
    smoothing_enabled,    \* the smoothing toggle
    filter_enabled,       \* the filter toggle
    data_buffer,          \* the deque of (timestamp, values) samples, oldest first
    sample_count,         \* samples counted since the last rate report
    is_data_flowing,      \* the liveness flag
    buffer_clear_time,    \* when the rate report last ran
    ingest,               \* the ingest thread: position, lines read, its last iteration,
                          \* when it last appended a sample
    stop_time,            \* when the run flag was cleared, -1 while it is set
    railed_percentages,   \* per channel, the decayed rail percentage
    fft_data,             \* per channel, the stored spectrum
    head_map_data,        \* per channel, the stored signal strength
    frame                 \* the last call of update_plot: what it extracted and drew

viz_vars == <<setup, clock, running, stream_active, smoothing_enabled, filter_enabled,
              data_buffer, sample_count, is_data_flowing, buffer_clear_time, ingest,
              stop_time, railed_percentages, fft_data, head_map_data, frame>>

frame_vars == <<railed_percentages, fft_data, head_map_data, frame>>

vars == <<bridge_vars, viz_vars>>

Pre == [current_board |-> current_board, current_board_id |-> current_board_id,
        is_streaming |-> is_streaming, visualizer_process |-> visualizer_process,
        stream_running |-> stream_running, data_thread |-> data_thread]

NoEnv == [cur |-> {}, A |-> {}, B |-> {}, pay |-> <<1>>, popen |-> TRUE, join |-> TRUE,
          mkdir |-> TRUE, write |-> TRUE]

\* the frame of an operation on entry
Enter(env) ==
    [env |-> env, avail |-> BRAINFLOW_AVAILABLE,
     obj |-> [cur |-> current_board, A |-> NoBoard, B |-> NoBoard],
     ref |-> IF current_board = NoBoard THEN "none" ELSE "cur",
     id |-> current_board_id, st |-> is_streaming,
     vp |-> visualizer_process, sr |-> stream_running, dt |-> data_thread, orph |-> orphans,
     calls |-> <<>>, attempts |-> <<>>, exc |-> NoExc, ret |-> NoRet,
     data |-> -1, pay |-> << >>, bid |-> NoId, file |-> NoFile, spawned |-> 0, joins |-> 0]

Raised(e) == [status |-> "raised", message |-> e, board_type |-> "", samples |-> -1, channels |-> -1]

\* the operation returns (or raises) to its caller
Finish(op, c) ==
    /\ c.orph <= MaxOrphans
    /\ current_board' = IF c.ref = "none" THEN NoBoard ELSE c.obj[c.ref]
    /\ current_board_id' = c.id
    /\ is_streaming' = c.st
    /\ visualizer_process' = c.vp
    /\ stream_running' = c.sr
    /\ data_thread' = c.dt
    /\ orphans' = c.orph
    /\ relay' = "none"
    /\ last' = [op |-> op, returned |-> TRUE,
                result |-> IF c.exc # NoExc THEN Raised(c.exc) ELSE c.ret,
                pre |-> Pre, data |-> c.data, calls |-> c.calls, attempts |-> c.attempts,
                obj |-> c.obj, ref |-> c.ref, file |-> c.file, pay |-> c.pay, bid |-> c.bid,
                spawned |-> c.spawned, joins |-> c.joins]
    /\ UNCHANGED <<BRAINFLOW_AVAILABLE, viz_vars>>

\* the module used as a library: nothing is run from the command line
NoCli == [pc |-> "off", action |-> "none", stdout |-> << >>, started |-> FALSE]
CliOp(action) == IF action = "connect" THEN "init_board" ELSE action

\* lines 855-871 when run from the command line: the operation is the one
\* named by --action, and its diagnostics go to standard output; an
\* exception that escapes it is printed and turned into an error result
Dispatched(op, c) ==
    IF cli.pc = "off" THEN UNCHANGED cli
    ELSE /\ cli.pc = "dispatch"
         /\ CliOp(cli.action) = op
         /\ cli' = [cli EXCEPT !.pc = "result",
                               !.stdout = IF c.avail \/ c.exc # NoExc THEN Append(@, "main") ELSE @]

Leave(op, c) == Finish(op, c) /\ Dispatched(op, c) /\ UNCHANGED board_data

\* The visualizer's module globals as the import leaves them (lines 71-86),
\* with no ingest thread started.
NoLine == [k |-> "none", w |-> 0, ts |-> 0, level |-> 0]

\* appends counts the appends to data_buffer: the mutation count a
\* collections.deque keeps and its iterators compare
NoIngest == [pc |-> "off", lines |-> 0, did |-> "none", line |-> NoLine,
             evicted |-> FALSE, cleared |-> FALSE, appended_at |-> -1, appends |-> 0]

NoSetup == [source |-> "none", os_name |-> "posix", board_type |-> "cyton",
            auto_start |-> FALSE, scipy |-> TRUE]

\* a rational number num/den in lowest terms, den > 0
RECURSIVE GCD(_, _)
GCD(a, b) == IF b = 0 THEN a ELSE GCD(b, a % b)

Rat(num, den) ==
    IF num = 0 THEN [num |-> 0, den |-> 1]
    ELSE [num |-> num \div GCD(Abs(num), den), den |-> den \div GCD(Abs(num), den)]

Zero == Rat(0, 1)

\* fft_data has no entry for the channel
NoSpectrum == [stored |-> FALSE, zeros |-> TRUE, of |-> << >>]

\* state is the mutation count of data_buffer the frame's iterator holds
NoFrame == [status |-> "none", n |-> 0, now |-> 0, times |-> << >>, values |-> << >>,
            trace |-> << >>, metrics |-> << >>, state |-> 0]


VizGlobals ==
    /\ clock = 0
    /\ running = TRUE
    /\ smoothing_enabled = TRUE
    /\ filter_enabled = TRUE
    /\ data_buffer = << >>
    /\ sample_count = 0
    /\ is_data_flowing = FALSE
    /\ buffer_clear_time = 0
    /\ stop_time = -1
    /\ railed_percentages = [ch \in 1..16 |-> Zero]
    /\ fft_data = [ch \in 1..16 |-> NoSpectrum]
    /\ head_map_data = [ch \in 1..16 |-> Zero]
    /\ frame = NoFrame

VizOff == VizGlobals /\ stream_active = FALSE /\ setup = NoSetup /\ ingest = NoIngest

\* Samples are numbered from 1 in the order the board produces them.
\* buffer: the samples the board holds; produced: how many it has produced
\* since the stream started; last_idx: the relay thread's local (line 681);
\* retrieved: the samples the relay thread's get_board_data calls returned;
\* sent: the samples written to the visualizer's stdin.
NoData == [buffer |-> << >>, produced |-> 0, last_idx |-> 0, retrieved |-> << >>, sent |-> << >>]

Globals ==
    /\ BRAINFLOW_AVAILABLE \in BOOLEAN
    /\ board_data = NoData
    /\ current_board = NoBoard
    /\ current_board_id = NoId
    /\ is_streaming = FALSE
    /\ visualizer_process = FALSE
    /\ stream_running = FALSE
    /\ data_thread = "None"
    /\ orphans = 0
    /\ relay = "none"
    /\ last = [op |-> "none", returned |-> FALSE, result |-> NoRet, pre |-> Pre, data |-> -1,
               calls |-> <<>>, attempts |-> <<>>,
               obj |-> [cur |-> NoBoard, A |-> NoBoard, B |-> NoBoard], ref |-> "none",
               file |-> NoFile, pay |-> << >>, bid |-> NoId, spawned |-> 0, joins |-> 0]

Init == Globals /\ cli = NoCli /\ VizOff

\* ------------------------------------------------------------------ inputs
One(S) == {{}} \cup {{x} : x \in S}
ConnectFails == One({"BoardShim", "prepare_session"})
StartFails == One({"BoardShim", "prepare_session", "start_stream"})
CaptureFails == One({"BoardShim"} \cup LibCalls)
CleanupFails == One({"BoardShim", "stop_stream", "release_session"})
                    \cup {{"stop_stream", "release_session"}}
\* captures of up to MaxSamples samples whose payloads alternate, so that
\* neighbouring samples differ
Alternating(n, k) == [i \in 1..n |-> ((i + k) % 2) + 1]
Captures == {Alternating(n, k) : n \in 0..MaxSamples, k \in 0..1}
ShortCaptures == {<< >>, <<1>>}

\* ----------------------------------------------------------------- actions
\* Inputs are enumerated only where the operation can consult them: failures
\* of the tracked board when one is tracked, failures of the 8-channel board
\* when the 16-channel attempt fails, a join outcome when a thread is alive,
\* a Popen outcome when a start reaches start_visualizer with no process
\* tracked, the captured samples when a retrieval completes (longer captures
\* on the tracked board and on the first fresh attempt), directory and write
\* outcomes on those two paths.  In stop_recording the second fresh attempt
\* is taken through all its failures after the first failed in the
\* constructor, and through a constructor failure after the others.
Tracked == current_board # NoBoard
IfSet(cond, S) == IF cond THEN S ELSE {{}}
JoinOutcomes == IF data_thread = "alive" THEN BOOLEAN ELSE {TRUE}

InitBoard ==
    \E fa \in ConnectFails :
    \E fb \in IfSet(fa # {}, ConnectFails) :
        LET c == init_board(Enter([NoEnv EXCEPT !.A = fa, !.B = fb]))
        IN Leave("init_board", c)

CheckConnection ==
    \E fc \in IfSet(Tracked, One({"get_board_data"})) :
    \E fa \in IfSet(~Tracked \/ fc # {}, ConnectFails) :
    \E fb \in IfSet(fa # {}, ConnectFails) :
        Leave("check_connection",
              check_connection(Enter([NoEnv EXCEPT !.cur = fc, !.A = fa, !.B = fb])))

StartRecording ==
    \E fc \in IfSet(Tracked /\ ~is_streaming, One({"start_stream"})) :
    \E fa \in IfSet(~Tracked \/ fc # {}, StartFails) :
    \E fb \in IfSet(fa # {}, StartFails) :
    \E popen \in IF fc = {} /\ fb = {} /\ ~visualizer_process THEN BOOLEAN ELSE {TRUE} :
        Leave("start_recording",
              start_recording(Enter([NoEnv EXCEPT !.cur = fc, !.A = fa, !.B = fb, !.popen = popen])))

StopRecording ==
    \E fc \in IfSet(Tracked /\ is_streaming, One({"get_board_data", "stop_stream"})) :
    \E fa \in IfSet(~(Tracked /\ is_streaming), CaptureFails) :
    \E fb \in IF fa = {"BoardShim"} THEN CaptureFails ELSE IfSet(fa # {}, One({"BoardShim"})) :
    \E pay \in IF fc = {} /\ fb = {}
               THEN (IF fa = {} THEN Captures ELSE ShortCaptures)
               ELSE {<<1>>} :
    \E mkdir \in IF fc = {} /\ fa = {} /\ Len(pay) <= 1 THEN BOOLEAN ELSE {TRUE} :
    \E write \in IF fc = {} /\ fa = {} /\ pay # << >> /\ mkdir THEN BOOLEAN ELSE {TRUE} :
    \E join \in JoinOutcomes :
        Leave("stop_recording",
              stop_recording(Enter([NoEnv EXCEPT !.cur = fc, !.A = fa, !.B = fb, !.pay = pay,
                                                 !.join = join, !.mkdir = mkdir,
                                                 !.write = write])))

Disconnect ==
    \E fc \in IfSet(Tracked, One({"stop_stream", "release_session"})) :
    \E fa \in IfSet(~Tracked \/ fc # {}, CleanupFails) :
    \E fb \in IfSet("BoardShim" \in fa, CleanupFails) :
    \E join \in JoinOutcomes :
        Leave("disconnect",
              disconnect(Enter([NoEnv EXCEPT !.cur = fc, !.A = fa, !.B = fb, !.join = join])))

\* stream_data_to_visualizer: the thread leaves its loop (or returns on
\* entry) once stream_running is false or no board is tracked
RelayLoopExits == ~(stream_running /\ current_board # NoBoard)

RelayExit ==
    /\ data_thread = "alive"
    /\ RelayLoopExits
    /\ data_thread' = "dead"
    /\ relay' = "none"
    /\ last' = [last EXCEPT !.returned = FALSE]
    /\ UNCHANGED <<viz_vars, board_data, BRAINFLOW_AVAILABLE, current_board, current_board_id, is_streaming,
                   visualizer_process, stream_running, orphans, cli>>

\* one iteration of the loop (lines 683-717): when is_streaming, fetch the
\* board data and pass it on; an exception of the fetch is caught by the
\* handler at 714-717, which prints it and sleeps, and the loop goes on
RelayStep ==
    /\ data_thread = "alive"
    /\ ~RelayLoopExits
    /\ \E ok \in IF is_streaming THEN BOOLEAN ELSE {TRUE} :
           relay' = IF ~is_streaming THEN "idle" ELSE IF ok THEN "fetched" ELSE "fetch_error"
    /\ last' = [last EXCEPT !.returned = FALSE]
    /\ UNCHANGED <<viz_vars, board_data, BRAINFLOW_AVAILABLE, current_board, current_board_id, is_streaming,
                   visualizer_process, stream_running, data_thread, orphans>>

RelayIterate == RelayStep /\ UNCHANGED cli

OrphanExit ==
    /\ orphans > 0
    /\ RelayLoopExits
    /\ orphans' = orphans - 1
    /\ last' = [last EXCEPT !.returned = FALSE]
    /\ UNCHANGED <<viz_vars, board_data, BRAINFLOW_AVAILABLE, current_board, current_board_id, is_streaming,
                   visualizer_process, stream_running, data_thread, relay, cli>>

Next ==
    \/ InitBoard
    \/ CheckConnection
    \/ StartRecording
    \/ StopRecording
    \/ Disconnect
    \/ RelayIterate
    \/ RelayExit
    \/ OrphanExit

Spec == Init /\ [][Next]_vars

\* ------------------------------------------------- recording with the relay
\* A recording in which no library call fails: the board produces samples
\* while it streams, the relay thread fetches them on its iterations, and
\* stop_recording retrieves what the board holds.  Each get_board_data call
\* returns and removes all the samples the board holds.
\* how many samples the board produces in one recording
MaxProduced == 3

InitRelay == Globals /\ BRAINFLOW_AVAILABLE /\ cli = NoCli /\ VizOff

\* start_recording; a successful start_stream begins with an empty buffer, and
\* a new relay thread begins with last_idx = 0 (line 681)
StartCapture ==
    LET c == start_recording(Enter(NoEnv))
        restarted == \E i \in 1..Len(c.calls) :
                         c.calls[i].call = "start_stream" /\ c.calls[i].ok
        threaded == [board_data EXCEPT !.last_idx = IF c.spawned > 0 THEN 0 ELSE @]
    IN /\ Finish("start_recording", c)
       /\ Dispatched("start_recording", c)
       /\ board_data' = IF restarted
                        THEN [NoData EXCEPT !.last_idx = threaded.last_idx]
                        ELSE threaded

\* the streaming board produces one sample
Produce ==
    /\ Tracked
    /\ current_board.streaming
    /\ board_data.produced < MaxProduced
    /\ board_data' = [board_data EXCEPT !.produced = @ + 1,
                                        !.buffer = Append(@, board_data.produced + 1)]
    /\ UNCHANGED <<viz_vars, BRAINFLOW_AVAILABLE, current_board, current_board_id, is_streaming,
                   visualizer_process, stream_running, data_thread, orphans, relay, cli, last>>

\* lines 689-713: one iteration of the relay loop while is_streaming, the
\* fetch and the writes succeeding
RelayFetch ==
    /\ data_thread = "alive"
    /\ ~RelayLoopExits
    /\ is_streaming
    /\ LET data == board_data.buffer
           last_idx == board_data.last_idx
           \* lines 694-696: eeg_data = data[eeg_channels, last_idx:]
           eeg_data == IF Len(data) > last_idx THEN SubSeq(data, last_idx + 1, Len(data))
                       ELSE << >>
       IN board_data' = [board_data EXCEPT
                            !.buffer = << >>,
                            !.retrieved = @ \o data,
                            !.last_idx = IF Len(data) > last_idx THEN Len(data) ELSE @,
                            !.sent = IF visualizer_process THEN @ \o eeg_data ELSE @]
    /\ relay' = "fetched"
    /\ last' = [last EXCEPT !.returned = FALSE]
    /\ UNCHANGED <<viz_vars, BRAINFLOW_AVAILABLE, current_board, current_board_id, is_streaming,
                   visualizer_process, stream_running, data_thread, orphans, cli>>

\* stop_recording on the streaming tracked board: its get_board_data (line
\* 375) returns what the board holds
StopCapture ==
    /\ Tracked
    /\ is_streaming
    /\ \E join \in JoinOutcomes :
          LET c == stop_recording(Enter([NoEnv EXCEPT !.pay = board_data.buffer,
                                                      !.join = join]))
          IN /\ Finish("stop_recording", c)
             /\ Dispatched("stop_recording", c)
             /\ board_data' = [board_data EXCEPT !.buffer = << >>]

NextRelay ==
    \/ StartCapture
    \/ Produce
    \/ RelayFetch
    \/ StopCapture
    \/ RelayExit
    \/ OrphanExit

SpecRelay == InitRelay /\ [][NextRelay]_vars

\* ---------------------------------------------------------- command line
\* __main__ (lines 826-874): a fresh process prints its diagnostics, runs
\* the one action named on the command line, prints the result as JSON and
\* exits; a relay thread started by the action is a daemon thread and runs
\* until the process has exited.  Standard output is the sequence of lines
\* written, by kind: "main" (diagnostics of the main thread), "thread"
\* (diagnostics of the relay thread), "json" (the result).
MaxThreadLines == 2
CliActions == {"connect", "check_connection", "start_recording", "stop_recording",
               "disconnect", "unknown"}
ThreadLines == Cardinality({i \in DOMAIN cli.stdout : cli.stdout[i] = "thread"})

InitCli == Globals /\ cli = [NoCli EXCEPT !.pc = "start"] /\ VizOff

\* lines 828-853: diagnostics, argument parsing, "Executing action"
CliStart ==
    /\ cli.pc = "start"
    /\ \E action \in CliActions :
           cli' = [cli EXCEPT !.pc = "dispatch", !.action = action, !.stdout = Append(@, "main")]
    /\ UNCHANGED <<viz_vars, board_data, BRAINFLOW_AVAILABLE, current_board, current_board_id, is_streaming,
                   visualizer_process, stream_running, data_thread, orphans, relay, last>>

\* lines 866-867: any other action name
CliUnknown ==
    /\ cli.pc = "dispatch"
    /\ cli.action = "unknown"
    /\ cli' = [cli EXCEPT !.pc = "result"]
    /\ last' = [last EXCEPT !.op = "unknown", !.returned = TRUE,
                            !.result = Result("error", Msg("Unknown action"), "")]
    /\ UNCHANGED <<viz_vars, board_data, BRAINFLOW_AVAILABLE, current_board, current_board_id, is_streaming,
                   visualizer_process, stream_running, data_thread, orphans, relay>>

\* line 874: print(json.dumps(result))
CliPrintResult ==
    /\ cli.pc = "result"
    /\ cli' = [cli EXCEPT !.pc = "printed", !.stdout = Append(@, "json")]
    /\ UNCHANGED <<viz_vars, board_data, BRAINFLOW_AVAILABLE, current_board, current_board_id, is_streaming,
                   visualizer_process, stream_running, data_thread, orphans, relay, last>>

\* the interpreter shuts down; daemon threads end with it
CliExit ==
    /\ cli.pc = "printed"
    /\ cli' = [cli EXCEPT !.pc = "exited"]
    /\ UNCHANGED <<viz_vars, board_data, BRAINFLOW_AVAILABLE, current_board, current_board_id, is_streaming,
                   visualizer_process, stream_running, data_thread, orphans, relay, last>>

\* line 666: the relay thread's first statement, any time after
\* data_thread.start() and before the process has exited
CliThreadStarted ==
    /\ cli.pc \in {"result", "printed"}
    /\ data_thread = "alive"
    /\ ~cli.started
    /\ cli' = [cli EXCEPT !.started = TRUE, !.stdout = Append(@, "thread")]
    /\ UNCHANGED <<viz_vars, board_data, BRAINFLOW_AVAILABLE, current_board, current_board_id, is_streaming,
                   visualizer_process, stream_running, data_thread, orphans, relay, last>>

\* an iteration of the relay loop; a failing fetch prints
\* "Error in streaming thread: ..." (line 715)
CliRelayIterate ==
    /\ cli.pc \in {"result", "printed"}
    /\ cli.started
    /\ ThreadLines < MaxThreadLines
    /\ RelayStep
    /\ cli' = [cli EXCEPT !.stdout = IF relay' = "fetch_error" THEN Append(@, "thread") ELSE @]

NextCli ==
    \/ CliStart
    \/ InitBoard
    \/ CheckConnection
    \/ StartRecording
    \/ StopRecording
    \/ Disconnect
    \/ CliUnknown
    \/ CliPrintResult
    \/ CliExit
    \/ CliThreadStarted
    \/ CliRelayIterate

SpecCli == InitCli /\ [][NextCli]_vars



\* ---------------------------------------------------------------- properties
Ran(op) == last.returned /\ last.op = op
Ops == {"init_board", "check_connection", "start_recording", "stop_recording", "disconnect"}
Status == last.result.status
CallsOf(l, call, slot) ==
    {i \in 1..Len(l.calls) : l.calls[i].call = call /\ l.calls[i].slot = slot}
Attempts(l, call) ==
    {i \in 1..Len(l.calls) : l.calls[i].call = call}
ErrsOf(m) == {m.errs[i] : i \in 1..Len(m.errs)}

\* C1  is_streaming is true only between a successful start and a
\* stop/disconnect/error: after a step it is true only if start_stream just
\* succeeded on the board now tracked, or it was true before, the same board
\* is still tracked and the step was not a stop_recording, a disconnect or an
\* operation returning an error.
StartedOnTracked(l) ==
    /\ l.returned
    /\ l.result.status # "error"
    /\ l.ref # "none"
    /\ \E i \in CallsOf(l, "start_stream", l.ref) : l.calls[i].ok
EndsStreaming(l) ==
    /\ l.returned
    /\ (l.op \in {"stop_recording", "disconnect"} \/ l.result.status = "error")
C1_StreamingOnlyBetweenStartAndStop ==
    [][is_streaming' =>
          \/ StartedOnTracked(last')
          \/ /\ is_streaming
             /\ ~EndsStreaming(last')
             /\ (last'.returned => last'.ref = "cur")]_vars

\* C2  every transport operation returns a record whose status is success or
\* error, an error record carries a message, and no exception escapes.
C2_UniformResult ==
    last.op \in Ops =>
        /\ Status \in {"success", "error"}
        /\ (Status = "error" => last.result.message # NoMessage)
C2_Witness ==
    /\ Ran("stop_recording")
    /\ last.pre.is_streaming
    /\ Status = "error"
    /\ Len(last.attempts) = 0
    /\ \E i \in 1..Len(last.calls) : ~last.calls[i].ok

\* C3  whenever an operation returns an error after it prepared a session
\* or started a stream on a board (or the tracked board came prepared or
\* streaming from an earlier operation), stop_stream or release_session has
\* been attempted on that board before the operation returns.
Acquired(l, slot) ==
    {i \in 1..Len(l.calls) :
        /\ l.calls[i].slot = slot
        /\ l.calls[i].call \in {"prepare_session", "start_stream"}
        /\ l.calls[i].ok}
CleanedAfter(l, slot, i) ==
    \E j \in 1..Len(l.calls) :
        /\ j > i
        /\ l.calls[j].slot = slot
        /\ l.calls[j].call \in {"stop_stream", "release_session"}
C3_CleanupAfterFailure ==
    (last.op \in Ops /\ Status = "error") =>
        /\ \A slot \in Slots : \A i \in Acquired(last, slot) : CleanedAfter(last, slot, i)
        /\ (last.pre.current_board.prepared \/ last.pre.current_board.streaming)
               => CleanedAfter(last, "cur", 0)

\* C4  the 16-channel configuration is attempted first and the 8-channel
\* configuration is attempted if and only if the 16-channel attempt failed.
C4_DaisyFirstThenCyton ==
    last.attempts \in
        { <<>>,
          << [cfg |-> CYTON_DAISY_BOARD, ok |-> TRUE] >>,
          << [cfg |-> CYTON_DAISY_BOARD, ok |-> FALSE], [cfg |-> CYTON_BOARD, ok |-> TRUE] >>,
          << [cfg |-> CYTON_DAISY_BOARD, ok |-> FALSE], [cfg |-> CYTON_BOARD, ok |-> FALSE] >> }
C4_Witness ==
    /\ Ran("disconnect")
    /\ last.attempts = << [cfg |-> CYTON_DAISY_BOARD, ok |-> FALSE],
                          [cfg |-> CYTON_BOARD, ok |-> TRUE] >>

\* C5  when the attempts against both configurations fail with errors e1
\* and e2, the returned error message contains e1 and e2.
BothFailed(l) == Len(l.attempts) = 2 /\ ~l.attempts[1].ok /\ ~l.attempts[2].ok
\* the error that ended the attempt on a slot: its last call, which raised
EndingError(l, slot) ==
    {<<l.calls[i].call, slot>> : i \in
        {k \in 1..Len(l.calls) :
            /\ l.calls[k].slot = slot
            /\ ~l.calls[k].ok
            /\ \A j \in 1..Len(l.calls) : l.calls[j].slot = slot => j <= k}}
C5_BothErrorsReported ==
    (last.op \in Ops /\ BothFailed(last)) =>
        /\ Status = "error"
        /\ EndingError(last, "A") \subseteq ErrsOf(last.result.message)
        /\ EndingError(last, "B") \subseteq ErrsOf(last.result.message)


\* C6  disconnect, in any tracked state and under any failures of
\* stop_stream or release_session, attempts both a stream-stop and a
\* session-release on a board and returns a result without raising.
DisconnectCase ==
    /\ Ran("disconnect")
    /\ BRAINFLOW_AVAILABLE
    /\ \A i \in Attempts(last, "BoardShim") : last.calls[i].ok
C6_DisconnectStopsAndReleases ==
    DisconnectCase =>
        /\ Status \in {"success", "error"}
        /\ Attempts(last, "stop_stream") # {}
        /\ Attempts(last, "release_session") # {}

\* C6 (amended)  with the library available and board construction
\* succeeding, disconnect returns a result without raising and attempts a
\* session-release on a board; it attempts a stream-stop on the tracked board
\* only if is_streaming is set, and on every freshly constructed board, so no
\* stream-stop is attempted exactly when a tracked non-streaming board is
\* released at the first try.
C6_DisconnectReleases ==
    DisconnectCase =>
        /\ Status \in {"success", "error"}
        /\ Attempts(last, "release_session") # {}
        /\ CallsOf(last, "stop_stream", "cur") # {} => last.pre.is_streaming
        /\ \A slot \in {"A", "B"} :
               CallsOf(last, "BoardShim", slot) # {} =>
                   /\ CallsOf(last, "stop_stream", slot) # {}
                   /\ CallsOf(last, "release_session", slot) # {}
        /\ (Attempts(last, "stop_stream") = {}) <=>
               (/\ last.pre.current_board # NoBoard
                /\ ~last.pre.is_streaming
                /\ \A i \in CallsOf(last, "release_session", "cur") : last.calls[i].ok)
C6_Witness ==
    /\ DisconnectCase
    /\ last.pre.current_board # NoBoard
    /\ last.pre.is_streaming
    /\ \E i \in CallsOf(last, "stop_stream", "cur") : ~last.calls[i].ok
    /\ \E i \in CallsOf(last, "release_session", "A") : ~last.calls[i].ok

\* C7  disconnecting a tracked, non-streaming board returns success and
\* leaves current_board and current_board_id cleared whether or not
\* release_session raises; release_session is called exactly once on the
\* tracked board.
C7_DisconnectIdleBoard ==
    (Ran("disconnect") /\ BRAINFLOW_AVAILABLE
        /\ last.pre.current_board # NoBoard /\ ~last.pre.is_streaming) =>
        /\ Status = "success"
        /\ current_board = NoBoard
        /\ current_board_id = NoId
        /\ Cardinality(CallsOf(last, "release_session", "cur")) = 1

\* C8  disconnecting while the stream is running is rejected with an error.
C8_DisconnectWhileStreamingRejected ==
    (Ran("disconnect") /\ BRAINFLOW_AVAILABLE
        /\ last.pre.current_board # NoBoard /\ last.pre.is_streaming) =>
        Status = "error"

\* C9  starting a stream when one is already running returns an error and
\* does not start a second stream.
C9_StartWhileStreamingRejected ==
    (Ran("start_recording") /\ BRAINFLOW_AVAILABLE
        /\ last.pre.current_board # NoBoard /\ last.pre.is_streaming) =>
        /\ Status = "error"
        /\ Attempts(last, "start_stream") = {}

\* C10  stopping when no stream is running (no tracked board, or a tracked
\* board with is_streaming false) returns an error and captures or saves no
\* data.
C10_StopWithoutStreamRejected ==
    (Ran("stop_recording") /\ BRAINFLOW_AVAILABLE
        /\ (last.pre.current_board = NoBoard \/ ~last.pre.is_streaming)) =>
        /\ Status = "error"
        /\ Attempts(last, "get_board_data") = {}
        /\ ~last.file.written

\* C11  a start on a connected, non-streaming tracked board whose
\* start_stream succeeds returns success, leaves is_streaming true, calls
\* start_stream exactly once on the tracked board, and starts exactly one
\* background data thread.
StartOnIdleBoard ==
    /\ Ran("start_recording")
    /\ BRAINFLOW_AVAILABLE
    /\ last.pre.current_board # NoBoard
    /\ ~last.pre.is_streaming
    /\ \E i \in CallsOf(last, "start_stream", "cur") : last.calls[i].ok
StartedOnce ==
    /\ Status = "success"
    /\ is_streaming
    /\ last.ref = "cur"
    /\ Cardinality(CallsOf(last, "start_stream", "cur")) = 1
    /\ Attempts(last, "start_stream") = CallsOf(last, "start_stream", "cur")
C11_StartSpawnsOneThread ==
    StartOnIdleBoard => (StartedOnce /\ last.spawned = 1)

\* C11 (amended)  ... and starts exactly one background data thread when no
\* visualizer process is tracked and the visualizer process can be started,
\* and none otherwise.
PopenSucceeded == \E i \in Attempts(last, "Popen") : last.calls[i].ok
C11_StartSpawnsThreadWithVisualizer ==
    StartOnIdleBoard =>
        /\ StartedOnce
        /\ (Attempts(last, "Popen") # {}) <=> ~last.pre.visualizer_process
        /\ last.spawned = IF ~last.pre.visualizer_process /\ PopenSucceeded THEN 1 ELSE 0
C11_Witness ==
    /\ StartOnIdleBoard
    /\ last.spawned = 1
    /\ data_thread = "alive"

\* C12  a successful stop on a streaming tracked board returns success,
\* leaves is_streaming and stream_running false, calls stop_stream exactly
\* once on the tracked board, and joins the data thread.
StopOnStreamingBoard ==
    /\ Ran("stop_recording")
    /\ BRAINFLOW_AVAILABLE
    /\ last.pre.current_board # NoBoard
    /\ last.pre.is_streaming
    /\ Status = "success"
StoppedOnce ==
    /\ ~is_streaming
    /\ ~stream_running
    /\ Cardinality(CallsOf(last, "stop_stream", "cur")) = 1
    /\ Attempts(last, "stop_stream") = CallsOf(last, "stop_stream", "cur")
    /\ \A i \in CallsOf(last, "stop_stream", "cur") : last.calls[i].ok
C12_StopJoinsThread ==
    StopOnStreamingBoard => (StoppedOnce /\ last.joins >= 1)

\* C12 (amended)  ... and joins the data thread when one is alive; when no
\* data thread is alive (the visualizer never started, or the thread has
\* already exited) there is no join.
C12_StopJoinsLiveThread ==
    StopOnStreamingBoard =>
        /\ StoppedOnce
        /\ (last.pre.data_thread = "alive") => last.joins >= 1
        /\ (last.pre.data_thread # "alive") => last.joins = 0
C12_Witness ==
    /\ StopOnStreamingBoard
    /\ last.pre.data_thread = "alive"
    /\ last.joins >= 1
    /\ data_thread = "dead"

\* C13  after init_board returns an error, current_board is None and
\* is_streaming is false, whatever the state before the call.
C13_InitErrorLeavesCleanState ==
    (Ran("init_board") /\ Status = "error") =>
        (current_board = NoBoard /\ ~is_streaming)

\* C14  after init_board returns success, current_board is the board that
\* was prepared, current_board_id is its configuration, board_type is
\* 'cyton_daisy' exactly for the 16-channel configuration, and is_streaming
\* is false.
InitSucceeded == Ran("init_board") /\ Status = "success"
C15_UnavailableLibrary ==
    (~BRAINFLOW_AVAILABLE /\ last.op \in Ops) =>
        /\ last.result = Unavailable
        /\ last.calls = << >>
        /\ last.attempts = << >>
        /\ last.spawned = 0 /\ last.joins = 0 /\ ~last.file.written
        /\ Pre = last.pre
C15_Witness ==
    /\ ~BRAINFLOW_AVAILABLE
    /\ Ran("disconnect")
    /\ last.result = Unavailable

\* C17  when the bulk retrieval at stop returns no data, stop_recording
\* returns the explicit error 'No data was collected during recording',
\* which no hardware failure produces, and writes no output file.
NoDataCollected == Result("error", Msg("No data was collected during recording"), "")
RetrievalCompleted ==
    /\ Ran("stop_recording")
    /\ BRAINFLOW_AVAILABLE
    /\ IF last.attempts = << >>
       THEN \A i \in DOMAIN last.calls : last.calls[i].slot = "cur" => last.calls[i].ok
       ELSE last.attempts[Len(last.attempts)].ok
EmptyCapture == RetrievalCompleted /\ last.data = 0
MakedirsFailed == ErrsOf(last.result.message) = {<<"makedirs", "file">>}
Checked == Ran("check_connection")
TrackedResponded ==
    /\ last.pre.current_board # NoBoard
    /\ \E i \in CallsOf(last, "get_board_data", "cur") : last.calls[i].ok
SessionUnchanged ==
    /\ last.ref = (IF last.pre.current_board = NoBoard THEN "none" ELSE "cur")
    /\ current_board = last.pre.current_board
    /\ current_board_id = last.pre.current_board_id
    /\ is_streaming = last.pre.is_streaming
C20_CheckConnectionLeavesSession ==
    Checked => SessionUnchanged

\* C20 (amended)  check_connection leaves the three unchanged only when the
\* library is unavailable or the tracked board responds; otherwise it tracks
\* the board it has just prepared (is_streaming false), or clears all three
\* when neither configuration can be prepared.
C20_CheckConnectionRetracks ==
    Checked =>
        IF ~BRAINFLOW_AVAILABLE \/ TrackedResponded
        THEN SessionUnchanged
        ELSE IF Status = "success"
        THEN /\ last.ref \in {"A", "B"}
             /\ \E i \in CallsOf(last, "prepare_session", last.ref) : last.calls[i].ok
             /\ current_board = last.obj[last.ref]
             /\ current_board_id = (IF last.ref = "A" THEN CYTON_DAISY_BOARD ELSE CYTON_BOARD)
             /\ ~is_streaming
        ELSE /\ current_board = NoBoard
             /\ current_board_id = NoId
             /\ ~is_streaming
C20_Witness ==
    /\ Checked
    /\ last.pre.current_board # NoBoard
    /\ last.pre.is_streaming
    /\ ~TrackedResponded
    /\ Status = "success"
    /\ ~is_streaming

\* reading the file back: split the text into lines and fields, parse floats
RECURSIVE Split(_, _)
Split(s, sep) ==
    IF \A i \in 1..Len(s) : s[i] # sep THEN <<s>>
    ELSE LET k == CHOOSE i \in 1..Len(s) : s[i] = sep /\ \A h \in 1..(i - 1) : s[h] # sep
         IN <<SubSeq(s, 1, k - 1)>> \o Split(SubSeq(s, k + 1, Len(s)), sep)
DigitVal(d) == CHOOSE n \in 0..9 : Digits[n + 1] = d
RECURSIVE NatOf(_)
NatOf(cs) ==
    IF cs = << >> THEN 0
    ELSE NatOf(SubSeq(cs, 1, Len(cs) - 1)) * 10 + DigitVal(cs[Len(cs)])
float(cs) ==
    LET neg == cs[1] = "-"
        parts == Split(IF neg THEN Tail(cs) ELSE cs, ".")
        mag == NatOf(parts[1]) * 10 + NatOf(parts[2])
    IN IF neg THEN 0 - mag ELSE mag
ReadLines(text) == Split(text, "\n")
ReadRow(line) == LET f == Split(line, ",") IN [k \in 1..Len(f) |-> float(f[k])]

\* C18  for a non-empty capture of N samples over C EEG channels, a
\* successful stop_recording writes a header row followed by exactly N data
\* rows in capture order, each holding the sample's timestamp and its C
\* channel values; the result reports samples = N and channels = C, and
\* re-reading the file recovers the same N rows.
Saved == Ran("stop_recording") /\ Status = "success"
C18_FileRoundTrip ==
    Saved =>
        LET N == Len(last.pay)
            C == Len(get_eeg_channels(last.bid))
            captured == BoardData(last.bid, last.pay)
            lines == ReadLines(last.file.text)
        IN /\ N > 0 /\ last.data = N
           /\ C = (IF last.result.board_type = "cyton_daisy" THEN 16 ELSE 8)
           /\ last.file.written
           /\ Len(lines) = N + 1
           /\ Split(lines[1], ",")
                  = <<<<"timestamp">>>> \o [j \in 1..C |-> <<"channel_" \o ToString(j)>>]
           /\ \A i \in 1..N :
                  ReadRow(lines[i + 1])
                      = <<captured[get_timestamp_channel(last.bid)][i]>>
                            \o [j \in 1..C |-> captured[get_eeg_channels(last.bid)[j]][i]]
           /\ \A i \in 1..(N - 1) : ReadRow(lines[i + 1])[1] < ReadRow(lines[i + 2])[1]
           /\ last.result.samples = N
           /\ last.result.channels = C
C18_Witness ==
    /\ Saved
    /\ Len(last.pay) = MaxSamples
    /\ last.pay[1] # last.pay[2]
    /\ last.result.channels = 16
    /\ last.result.samples = MaxSamples

\* C16  if fetching board data raises inside the background data thread,
\* the thread does not crash the process, the stream is stopped
\* (stream_running becomes false) and the thread's loop terminates.
FetchRaised == relay' = "fetch_error" /\ data_thread = "alive" /\ ~RelayLoopExits
C16_FetchErrorStopsRelay ==
    [][FetchRaised => (~stream_running' /\ data_thread' = "dead")]_vars

\* C19  for every command-line action, including unknown actions and
\* actions that start the background relay thread, exactly one JSON result
\* object is printed to standard output and it is the final line written:
\* no diagnostic line of the main thread or of a background thread follows.
JsonLines == {i \in DOMAIN cli.stdout : cli.stdout[i] = "json"}
C19_OneJsonResultLast ==
    cli.pc = "exited" =>
        /\ Cardinality(JsonLines) = 1
        /\ cli.stdout[Len(cli.stdout)] = "json"

\* ===================================================== the visualizer process
\* brainwave_visualizer.py.  Time is counted in whole seconds.  An input line
\* is described by what the decoders can tell apart:
\*   k = "array"    a JSON array of w numbers
\*   k = "object"   a JSON object carrying a value array, e.g. {"ch": [1, 2]}
\*   k = "scalar"   a JSON scalar, e.g. 42
\*   k = "row"      w comma-separated numeric fields, the first one being ts
\*   k = "text_row" w comma-separated fields, not all of them numeric
\*   k = "garbage"  one field that is not JSON
\*   k = "blank"    nothing but white space
\* level selects the amplitudes the line carries.
\* the deque's maxlen (10000 at line 71), scaled down
BufferCap == 2
\* the last second the clock reaches
MaxTime == 2
\* how many lines the ingest thread reads, or samples the generator makes
MaxLines == 3

Line(k, w, ts, level) == [k |-> k, w |-> w, ts |-> ts, level |-> level]

\* (timestamp, values): kind is the Python type of values, w its length
Sample(timestamp, kind, w, level) ==
    [timestamp |-> timestamp, kind |-> kind, w |-> w, level |-> level]

\* an append that never evicts
deque_append_unbounded(buf, s) == Append(buf, s)

\* deque(maxlen=...).append
deque_append(buf, s) ==
    IF Len(buf) >= BufferCap THEN Append(Tail(buf), s) ELSE Append(buf, s)

\* json.loads: the decoded value, or JSONDecodeError
json_loads(line) ==
    CASE line.k = "array"  -> [ok |-> TRUE, kind |-> "list", w |-> line.w]
      [] line.k = "object" -> [ok |-> TRUE, kind |-> "dict", w |-> 1]
      [] line.k = "scalar" -> [ok |-> TRUE, kind |-> "number", w |-> 0]
      [] OTHER             -> [ok |-> FALSE, kind |-> "none", w |-> 0]

\* list(csv.reader(StringIO(line)))[0]: the number of fields
csv_reader(line) ==
    CASE line.k \in {"row", "text_row", "array"} -> line.w
      [] line.k = "object"                       -> 2
      [] line.k \in {"scalar", "garbage"}        -> 1
      [] OTHER                                   -> 0

\* lines 203-211 and 276-282: the delimited-row decoder
\* "sample" is the sequence of samples to append (none or one); "raised" tells
\* whether float() raised: it accepts the fields of a "row" only.
decode_row(line) ==
    IF csv_reader(line) >= 17
    THEN IF line.k = "row"
         THEN [sample |-> <<Sample(line.ts, "list", 16, line.level)>>, raised |-> FALSE]
         ELSE [sample |-> << >>, raised |-> TRUE]
    ELSE [sample |-> << >>, raised |-> FALSE]

\* lines 193-211 (Windows) and 215-233 (elsewhere): one line read from stdin
\* "counted" tells whether sample_count and is_data_flowing are updated.
decode_stdin(line, now) ==
    IF line.k = "blank"
    THEN [sample |-> << >>, did |-> "blank"]
    ELSE IF json_loads(line).ok
    THEN [sample |-> <<Sample(now, json_loads(line).kind, json_loads(line).w, line.level)>>,
          did |-> "json"]
    ELSE IF decode_row(line).sample # << >>
    THEN [sample |-> decode_row(line).sample, did |-> "csv"]
    ELSE [sample |-> << >>, did |-> "dropped"]

\* lines 275-282: one line read from the file
decode_file(line) ==
    IF decode_row(line).raised
    THEN [sample |-> << >>, did |-> "printed"]
    ELSE IF decode_row(line).sample # << >>
    THEN [sample |-> decode_row(line).sample, did |-> "csv"]
    ELSE [sample |-> << >>, did |-> "dropped"]

extend(buf, samples) == IF samples = << >> THEN buf ELSE deque_append(buf, samples[1])

\* ------------------------------------------------ visualizer: environment
\* the lines standard input or the replayed file hold at time now
Lines(now) ==
    {Line("array", 16, 0, 1), Line("scalar", 0, 0, 0),
     Line("row", 17, now - 1, 1), Line("row", 17, now, 2),
     Line("row", 3, now, 1), Line("text_row", 17, now, 1), Line("garbage", 1, 0, 0),
     Line("blank", 0, 0, 0)}

\* variant: the three data sources are tested one after the other
started_each(csv_file, test_mode) ==
    (IF csv_file THEN {"csv"} ELSE {}) \cup (IF test_mode THEN {"test"} ELSE {})
        \cup (IF ~csv_file \/ ~test_mode THEN {"stdin"} ELSE {})

\* lines 892-906: the ingest threads __main__ starts, given whether
\* --csv_file and --test_mode were passed
started(csv_file, test_mode) ==
    IF csv_file THEN {"csv"}
    ELSE IF test_mode THEN {"test"}
    ELSE {"stdin"}

\* lines 869-906: the globals after argument parsing, the ingest thread started
InitViz ==
    /\ Globals /\ BRAINFLOW_AVAILABLE /\ cli = NoCli
    /\ VizGlobals
    /\ \E csv_file \in BOOLEAN, test_mode \in BOOLEAN, os \in {"posix", "nt"}, a \in BOOLEAN :
       \E src \in started(csv_file, test_mode) :
          /\ os = "posix" \/ src = "stdin"
          /\ setup = [source |-> src, os_name |-> os, board_type |-> "cyton_daisy",
                      auto_start |-> a, scipy |-> TRUE]
    /\ stream_active = setup.auto_start
    /\ ingest = [NoIngest EXCEPT !.pc = IF setup.source = "csv" THEN "open" ELSE "loop"]

\* ------------------------------------------------- visualizer: ingest thread
Did(pc, n, did, line, evicted, cleared) ==
    [pc |-> pc, lines |-> ingest.lines + n, did |-> did, line |-> line,
     evicted |-> evicted, cleared |-> cleared,
     appended_at |-> IF did \in {"json", "csv", "generated"} THEN clock
                     ELSE ingest.appended_at,
     appends |-> IF did \in {"json", "csv", "generated"} THEN ingest.appends + 1
                 ELSE ingest.appends]

\* "while running:" found the flag cleared: the thread function returns
LoopExit ==
    /\ ingest' = Did("exited", 0, "exit", NoLine, FALSE, FALSE)
    /\ UNCHANGED <<data_buffer, sample_count, is_data_flowing, buffer_clear_time>>

\* "if not stream_active: time.sleep(0.1); continue"
LoopPaused ==
    /\ ingest' = Did("loop", 0, "paused", NoLine, FALSE, FALSE)
    /\ UNCHANGED <<data_buffer, sample_count, is_data_flowing, buffer_clear_time>>

\* lines 236-241: the rate report, run when more than a second has passed
\* since it last ran
RateReportDue == clock - buffer_clear_time > 1

\* lines 192-211 / 214-233 followed by lines 236-241: a line was read
StdinLine(line) ==
    LET d == decode_stdin(line, clock)
        got == d.sample # << >>
    IN /\ data_buffer' = extend(data_buffer, d.sample)
       /\ sample_count' = IF RateReportDue THEN 0
                          ELSE IF got THEN sample_count + 1 ELSE sample_count
       /\ is_data_flowing' = IF RateReportDue THEN FALSE ELSE (got \/ is_data_flowing)
       /\ buffer_clear_time' = IF RateReportDue THEN clock ELSE buffer_clear_time
       /\ ingest' = Did("loop", 1, d.did, line, got /\ Len(data_buffer) >= BufferCap,
                        RateReportDue)

\* nothing to read: on Windows readline (line 192) does not return; elsewhere
\* select (line 213) finds nothing and lines 236-241 follow
StdinNothing ==
    IF setup.os_name = "nt"
    THEN /\ ingest' = Did("readline", 0, "blocked", NoLine, FALSE, FALSE)
         /\ UNCHANGED <<data_buffer, sample_count, is_data_flowing, buffer_clear_time>>
    ELSE /\ sample_count' = IF RateReportDue THEN 0 ELSE sample_count
         /\ is_data_flowing' = IF RateReportDue THEN FALSE ELSE is_data_flowing
         /\ buffer_clear_time' = IF RateReportDue THEN clock ELSE buffer_clear_time
         /\ ingest' = Did("loop", 0, "idle", NoLine, FALSE, RateReportDue)
         /\ UNCHANGED data_buffer

\* lines 245-248: reading raised; the handler prints and sleeps
StdinError ==
    /\ ingest' = Did("loop", 0, "error", NoLine, FALSE, FALSE)
    /\ UNCHANGED <<data_buffer, sample_count, is_data_flowing, buffer_clear_time>>

\* what a read can meet besides a line: nothing to read, end of file, an I/O error
ReadError == Line("error", 0, 0, 0)

EndOfFile == Line("eof", 0, 0, 0)

StdinInputs == {NoLine, ReadError} \cup (IF ingest.lines < MaxLines THEN Lines(clock) ELSE {})

\* read_data_from_stdin, lines 184-248: one iteration of the loop
StdinIterate ==
    /\ setup.source = "stdin"
    /\ ingest.pc = "loop"
    /\ IF ~running THEN LoopExit
       ELSE IF ~stream_active THEN LoopPaused
       ELSE \E inp \in StdinInputs :
               CASE inp = ReadError -> StdinError
                 [] inp = NoLine  -> StdinNothing
                 [] OTHER         -> StdinLine(inp)
    /\ UNCHANGED <<setup, clock, running, stream_active, smoothing_enabled, filter_enabled,
                   stop_time, bridge_vars, frame_vars>>

\* line 192 on Windows: the blocked readline returns a line, or raises
StdinUnblock ==
    /\ setup.source = "stdin"
    /\ ingest.pc = "readline"
    /\ \E inp \in StdinInputs \ {NoLine} :
          IF inp = ReadError THEN StdinError ELSE StdinLine(inp)
    /\ UNCHANGED <<setup, clock, running, stream_active, smoothing_enabled, filter_enabled,
                   stop_time, bridge_vars, frame_vars>>

\* process_csv, lines 259-262 and 287-288: open the file and skip the header
CsvOpen ==
    /\ setup.source = "csv"
    /\ ingest.pc = "open"
    /\ \E ok \in BOOLEAN :
          ingest' = IF ok THEN Did("loop", 0, "opened", NoLine, FALSE, FALSE)
                    ELSE Did("ended", 0, "open_error", NoLine, FALSE, FALSE)
    /\ UNCHANGED <<setup, clock, running, stream_active, smoothing_enabled, filter_enabled,
                   data_buffer, sample_count, is_data_flowing, buffer_clear_time,
                   stop_time, bridge_vars, frame_vars>>

\* process_csv, lines 265-288: one iteration of the loop
CsvIterate ==
    /\ setup.source = "csv"
    /\ ingest.pc = "loop"
    /\ IF ~running THEN LoopExit
       ELSE IF ~stream_active THEN LoopPaused
       ELSE /\ \E inp \in {EndOfFile, ReadError}
                           \cup (IF ingest.lines < MaxLines THEN Lines(clock) ELSE {}) :
                  CASE inp = ReadError ->
                         /\ ingest' = Did("ended", 0, "error", NoLine, FALSE, FALSE)
                         /\ UNCHANGED data_buffer
                    [] inp = EndOfFile ->
                         /\ ingest' = Did("loop", 0, "eof", NoLine, FALSE, FALSE)
                         /\ UNCHANGED data_buffer
                    [] OTHER ->
                         /\ data_buffer' = extend(data_buffer, decode_file(inp).sample)
                         /\ ingest' = Did("loop", 1, decode_file(inp).did, inp,
                                          /\ decode_file(inp).sample # << >>
                                          /\ Len(data_buffer) >= BufferCap,
                                          FALSE)
            /\ UNCHANGED <<sample_count, is_data_flowing, buffer_clear_time>>
    /\ UNCHANGED <<setup, clock, running, stream_active, smoothing_enabled, filter_enabled,
                   stop_time, bridge_vars, frame_vars>>

\* generate_test_data, lines 561-593: one iteration of the loop
TestIterate ==
    /\ setup.source = "test"
    /\ ingest.pc = "loop"
    /\ IF ~running THEN LoopExit
       ELSE IF ~stream_active THEN LoopPaused
       ELSE /\ ingest.lines < MaxLines
            /\ \E level \in {1, 2} :
                  /\ data_buffer' = deque_append(data_buffer, Sample(clock, "list", 16, level))
                  /\ ingest' = Did("loop", 1, "generated", NoLine,
                                   Len(data_buffer) >= BufferCap, FALSE)
            /\ UNCHANGED <<sample_count, is_data_flowing, buffer_clear_time>>
    /\ UNCHANGED <<setup, clock, running, stream_active, smoothing_enabled, filter_enabled,
                   stop_time, bridge_vars, frame_vars>>

\* ------------------------------------------------ visualizer: main thread
\* time passes
Tick ==
    /\ clock < MaxTime
    /\ clock' = clock + 1
    /\ UNCHANGED <<setup, running, stream_active, smoothing_enabled, filter_enabled,
                   data_buffer, sample_count, is_data_flowing, buffer_clear_time, ingest,
                   stop_time, bridge_vars, frame_vars>>

\* toggle_data_stream, lines 485-498
ToggleDataStream ==
    /\ running
    /\ stream_active' = ~stream_active
    /\ UNCHANGED <<setup, clock, running, smoothing_enabled, filter_enabled,
                   data_buffer, sample_count, is_data_flowing, buffer_clear_time, ingest,
                   stop_time, bridge_vars, frame_vars>>

\* signal_handler, line 130, and the end of start_visualization, lines 832 and 839
StopRunning ==
    /\ running
    /\ running' = FALSE
    /\ stop_time' = clock
    /\ UNCHANGED <<setup, clock, stream_active, smoothing_enabled, filter_enabled,
                   data_buffer, sample_count, is_data_flowing, buffer_clear_time, ingest,
                   bridge_vars, frame_vars>>

NextViz ==
    \/ StdinIterate
    \/ StdinUnblock
    \/ CsvOpen
    \/ CsvIterate
    \/ TestIterate
    \/ Tick
    \/ ToggleDataStream
    \/ StopRunning

SpecViz == InitViz /\ [][NextViz]_vars

\* ------------------------------------------------------------------- C21
\* C21: the buffer never holds more samples than its capacity, and an append
\* to a buffer at capacity drops exactly the oldest sample, keeps the others
\* in their order, puts the new sample last and leaves the length at capacity.
C21_BufferBounded ==
    /\ [](Len(data_buffer) <= BufferCap)
    /\ [][(data_buffer' # data_buffer /\ Len(data_buffer) = BufferCap)
            => /\ Len(data_buffer') = BufferCap
               /\ SubSeq(data_buffer', 1, BufferCap - 1) = Tail(data_buffer)]_vars

C21_Witness ==
    /\ ingest.evicted
    /\ Len(data_buffer) = BufferCap
    /\ ingest.did \in {"json", "csv", "generated"}

\* ------------------------------------------------------------------- C22
\* C22: in every reachable buffer the sample timestamps are non-decreasing in
\* insertion order, whatever the source and the mix of line kinds.
C22_TimestampsNonDecreasing ==
    \A i \in 1..(Len(data_buffer) - 1) :
        data_buffer[i].timestamp <= data_buffer[i + 1].timestamp

\* ------------------------------------------------------------------- C25
\* the step read one more line from standard input or from the file
ReadLine == ingest'.lines = ingest.lines + 1 /\ setup.source \in {"stdin", "csv"}

\* neither structured data carrying a value array nor a row of at least 17
\* numeric fields
Malformed(line) ==
    ~ \/ line.k \in {"object", "array"}
      \/ line.k = "row" /\ line.w >= 17

\* C25: a line that is neither structured data with a value array nor a row
\* of at least 17 numeric fields is dropped without a message: the buffer and
\* the counter stay as they were and the thread stays in its loop.
C25_MalformedDropped ==
    [][(ReadLine /\ Malformed(ingest'.line))
         => /\ data_buffer' = data_buffer
            /\ sample_count' = sample_count \/ ingest'.cleared
            /\ ingest'.did \in {"dropped", "blank"}
            /\ ingest'.pc = "loop"]_vars

\* ------------------------------------------------------------------- C26
\* the step decoded the line it read into a sample
Decoded == ReadLine /\ ingest'.did \in {"json", "csv"}

\* C26: from standard input and from the replayed file alike, every line
\* that decodes appends exactly one sample and adds exactly one to
\* sample_count (which the rate report of the same iteration may then reset).
C26_DecodeAppendsAndCounts ==
    [][Decoded
         => /\ Len(data_buffer') > 0
            /\ data_buffer' = deque_append(data_buffer, data_buffer'[Len(data_buffer')])
            /\ sample_count' = sample_count + 1 \/ ingest'.cleared]_vars

\* ------------------------------------------------------------------- C27
\* the step ran the rate report: flag cleared, counter reset
Cleared == buffer_clear_time' # buffer_clear_time

\* C27: is_data_flowing is cleared and the counter reset only when no sample
\* has been appended for more than one second.
C27_ClearedOnlyWhenQuiet ==
    [][Cleared
         => /\ ~is_data_flowing' /\ sample_count' = 0
            /\ \/ ingest'.appended_at = -1
               \/ clock - ingest'.appended_at > 1]_vars

\* ------------------------------------------------------------------- C28
\* C28: once running is false the ingest thread leaves at its next loop
\* test, and it is not still inside an iteration a second later.
C28_ExitsWithinOneIteration ==
    /\ [][(~running /\ ingest.pc = "loop" /\ ingest' # ingest)
            => ingest'.pc = "exited"]_vars
    /\ []((~running /\ clock > stop_time) => ingest.pc # "readline")

\* ------------------------------------------------------------------- C29
\* the ingest thread met an I/O error in this step
IOError == ingest' # ingest /\ ingest'.did \in {"error", "open_error"}

\* C29: stream_active becomes true only by the start command, and an I/O
\* error in the ingest thread leaves it false.
C29_StreamStateMachine ==
    [][/\ (stream_active' /\ ~stream_active)
            => UNCHANGED <<ingest, data_buffer, sample_count, clock, running>>
       /\ IOError => ~stream_active']_vars

\* ------------------------------------------------------ visualizer: frames
\* update_plot, lines 315-451.  Channels are numbered from 1; amplitudes are
\* whole microvolts; quotients are kept as exact fractions.
TIME_WINDOW == 5
VERTICAL_SCALE == 200
SAMPLE_RATE == 250

\* __main__ line 845 and start_visualization: 16 channels with the daisy board
channel_count == IF setup.board_type = "cyton_daisy" THEN 16 ELSE 8

\* values[ch] of a sample holding a list: the amplitude its level gives the channel
ValueAt(s, ch) ==
    CASE s.level = 0 -> 0
      [] s.level = 1 -> 10 * ch
      [] s.level = 2 -> IF ch % 2 = 1 THEN 196 ELSE -196
      [] OTHER       -> -(10 * ch)

RECURSIVE SumRange(_, _, _)
SumRange(q, lo, hi) ==
    IF lo > hi THEN 0
    ELSE IF lo = hi THEN q[lo]
    ELSE SumRange(q, lo, (lo + hi) \div 2) + SumRange(q, (lo + hi) \div 2 + 1, hi)

SumSeq(q) == SumRange(q, 1, Len(q))

\* variant: every railed value is counted twice
Count_twice(q) == 2 * Len(SelectSeq(q, LAMBDA v : Abs(v) * 100 > VERTICAL_SCALE * 95))

\* lines 306 and 356: how many values have abs(val) > VERTICAL_SCALE * 0.95
Count(q) == Len(SelectSeq(q, LAMBDA v : Abs(v) * 100 > VERTICAL_SCALE * 95))

\* variant: no early return for a window of fewer than 10 values
analyze_signal_any_length(channel_data) ==
    LET n == Len(channel_data)
        sum == SumSeq(channel_data)
        sumsq == SumSeq([i \in 1..n |-> channel_data[i] * channel_data[i]])
    IN [rms_sq |-> Rat(sumsq, n),
        rail_percentage |-> Rat(100 * Count(channel_data), n),
        variance |-> Rat(n * sumsq - sum * sum, n * n)]

\* analyze_signal, lines 293-312: rms (as its square), rail percentage, variance
analyze_signal(channel_data) ==
    LET n == Len(channel_data)
        sum == SumSeq(channel_data)
        sumsq == SumSeq([i \in 1..n |-> channel_data[i] * channel_data[i]])
    IN IF n < 10
       THEN [rms_sq |-> Zero, rail_percentage |-> Zero, variance |-> Zero]
       ELSE [rms_sq |-> Rat(sumsq, n),
             rail_percentage |-> Rat(100 * Count(channel_data), n),
             variance |-> Rat(n * sumsq - sum * sum, n * n)]

\* scipy.signal.filtfilt pads each end with 3 * max(len(a), len(b)) samples
\* and rejects an input that is not longer than that; butter(order, ...,
\* btype='band') returns 2 * order + 1 coefficients (order = 4, line 136)
padlen == 3 * (2 * 4 + 1)

\* apply_bandpass, lines 136-154: the filtered data, or the exception of
\* filtfilt.  The filter is represented by the removal of the mean.
apply_bandpass(data, filtering) ==
    LET mean == SumSeq(data) \div Len(data) IN
    IF ~filtering \/ Len(data) < 10 THEN [raised |-> FALSE, data |-> data]
    ELSE IF ~setup.scipy THEN [raised |-> FALSE, data |-> data]
    ELSE IF Len(data) <= padlen THEN [raised |-> TRUE, data |-> << >>]
    ELSE [raised |-> FALSE,
          data |-> [i \in 1..Len(data) |-> data[i] - mean]]

\* np.convolve(x, np.ones(5)/5, mode='same'), line 380: five times each value
convolve_same(x) ==
    LET n == Len(x)
        start == IF n < 5 THEN (n - 1) \div 2 ELSE 2
        full(k) == SumRange(x, (IF k < 4 THEN 0 ELSE k - 4) + 1, (IF k < n - 1 THEN k ELSE n - 1) + 1)
    IN [i \in 1..(IF n < 5 THEN 5 ELSE n) |-> full(i - 1 + start)]

\* calculate_fft, lines 157-174: zeros for less than half a second of data,
\* else the spectrum of the data, kept as the data it is the spectrum of
calculate_fft(data) ==
    IF Len(data) < SAMPLE_RATE \div 2
    THEN [stored |-> TRUE, zeros |-> TRUE, of |-> << >>]
    ELSE [stored |-> TRUE, zeros |-> FALSE, of |-> data]

\* lines 345-346: the samples of the buffer inside the window
InWindow(s, now) == s.timestamp >= now - TIME_WINDOW

\* lines 343-357: display_data[ch] for one channel
Window(buf, ch, now) ==
    LET sel == SelectSeq(buf, LAMBDA s : InWindow(s, now) /\ ch <= s.w)
    IN [times |-> [i \in 1..Len(sel) |-> sel[i].timestamp - now],
        values |-> [i \in 1..Len(sel) |-> ValueAt(sel[i], ch)]]

\* lines 365-432 for one channel; st carries the globals and what was drawn,
\* filtering and smoothing are the two toggles as the frame reads them
UpdateChannel(ch, values, st, filtering, smoothing) ==
    LET filtered == IF filtering /\ Len(values) > 10 THEN apply_bandpass(values, filtering)
                    ELSE [raised |-> FALSE, data |-> values]
        smoothed == IF smoothing /\ Len(filtered.data) > 3
                    THEN [den |-> 5, num |-> convolve_same(filtered.data)]
                    ELSE [den |-> 1, num |-> filtered.data]
        m == analyze_signal(values)
        spectrum == Len(values) > SAMPLE_RATE \div 4
    IN IF values = << >> THEN st
       ELSE IF filtered.raised THEN [st EXCEPT !.raised = TRUE]
       ELSE [st EXCEPT
               !.trace[ch] = smoothed,
               !.metrics[ch] = [computed |-> TRUE, rms_sq |-> m.rms_sq,
                                rail_percentage |-> m.rail_percentage,
                                variance |-> m.variance],
               \* lines 392-394: 0.7 * old + 0.3 * (100 * count / total)
               !.railed_percentages[ch] =
                   Rat(7 * @.num * Len(values) + 3 * 100 * Count(values) * @.den,
                       10 * @.den * Len(values)),
               !.fft_data[ch] = IF spectrum THEN calculate_fft(values) ELSE @,
               !.head_map_data[ch] = IF spectrum THEN m.rms_sq ELSE @]

\* lines 363-432: the channels from ch on, until one raises
RECURSIVE UpdateChannels(_, _, _, _, _)
UpdateChannels(ch, windows, st, filtering, smoothing) ==
    IF ch > channel_count \/ st.raised THEN st
    ELSE UpdateChannels(ch + 1, windows,
                        UpdateChannel(ch, windows[ch].values, st, filtering, smoothing),
                        filtering, smoothing)

\* update_plot, lines 315-451, with the toggles it reads at lines 371 and 377
render(now, filtering, smoothing) ==
    LET readable == \A i \in 1..Len(data_buffer) :
                        \* lines 349-350: len(values) and values[ch] need a list
                        InWindow(data_buffer[i], now) => data_buffer[i].kind = "list"
        windows == [ch \in 1..channel_count |-> Window(data_buffer, ch, now)]
        st0 == [raised |-> FALSE,
                railed_percentages |-> railed_percentages,
                fft_data |-> fft_data,
                head_map_data |-> head_map_data,
                trace |-> [ch \in 1..channel_count |-> [den |-> 1, num |-> << >>]],
                metrics |-> [ch \in 1..channel_count |->
                                [computed |-> FALSE, rms_sq |-> Zero,
                                 rail_percentage |-> Zero, variance |-> Zero]]]
        st == UpdateChannels(1, windows, st0, filtering, smoothing)
    IN IF ~readable
       THEN [raised |-> TRUE, railed_percentages |-> railed_percentages,
             fft_data |-> fft_data, head_map_data |-> head_map_data,
             frame |-> [NoFrame EXCEPT !.status = "raised", !.n = frame.n + 1, !.now = now]]
       ELSE [raised |-> st.raised, railed_percentages |-> st.railed_percentages,
             fft_data |-> st.fft_data, head_map_data |-> st.head_map_data,
             frame |-> [status |-> IF st.raised THEN "raised" ELSE "drawn",
                        n |-> frame.n + 1,
                        now |-> now,
                        times |-> [ch \in 1..channel_count |-> windows[ch].times],
                        values |-> [ch \in 1..channel_count |-> windows[ch].values],
                        trace |-> st.trace,
                        metrics |-> st.metrics,
                        state |-> 0]]

update_plot(now) == render(now, filter_enabled, smoothing_enabled)

\* ------------------------------------------- visualizer: the frame runs
\* The renderer is checked on the buffers the stdin reader leaves after it
\* has read a given sequence of lines at time t and the stream was stopped.
\* The sequences are far shorter than the deque's maxlen (10000, line 71),
\* so nothing is evicted.
\* how many frames are drawn
MaxFrames == 2

Feed(lines, t) ==
    LET decoded == [i \in 1..Len(lines) |-> decode_stdin(lines[i], t).sample]
        kept == SelectSeq(decoded, LAMBDA d : d # << >>)
    IN [i \in 1..Len(kept) |-> kept[i][1]]

\* n array lines of 16 values, their levels cycling from the given one
Burst(n, level) == [i \in 1..n |-> Line("array", 16, 0, (level + i) % 4)]

\* short windows, windows around each threshold of update_plot (3, 10,
\* padlen, SAMPLE_RATE // 4, SAMPLE_RATE // 2), railed and silent ones, rows
\* bringing their own timestamps, narrow arrays, objects and scalars
FrameLines(t, long) ==
    {Burst(n, 0) : n \in {0, 4, 12, 30}} \cup {Burst(n, 1) : n \in IF long THEN {63, 126} ELSE {}}
    \cup
    {[i \in 1..12 |-> Line("array", 16, 0, 2)], [i \in 1..12 |-> Line("array", 16, 0, 0)],
     <<Line("row", 17, t - 4, 1), Line("array", 2, 0, 2), Line("array", 16, 0, 1)>>,
     <<Line("row", 17, t - 6, 1), Line("array", 16, 0, 3)>>,
     <<Line("row", 17, t + 1, 1)>>,
     <<Line("object", 1, 0, 1)>>,
     <<Line("array", 16, 0, 1), Line("scalar", 0, 0, 0)>>}

InitFrame ==
    /\ Globals /\ BRAINFLOW_AVAILABLE /\ cli = NoCli
    /\ VizGlobals
    /\ \E src \in started(FALSE, FALSE), bt \in {"cyton", "cyton_daisy"}, sc \in BOOLEAN :
          setup = [source |-> src, os_name |-> "posix", board_type |-> bt,
                   auto_start |-> TRUE, scipy |-> sc]
    /\ stream_active = FALSE
    /\ ingest = [NoIngest EXCEPT !.pc = "loop"]

\* the reader has read the lines: the stream was active, then stopped
FrameFeed ==
    /\ ingest.did = "none"
    /\ frame.n = 0
    /\ clock = 0
    /\ \E lines \in FrameLines(clock, setup.board_type = "cyton" /\ setup.scipy) :
          /\ data_buffer' = Feed(lines, clock)
          /\ ingest' = Did("loop", 0, "paused", NoLine, FALSE, FALSE)
    /\ UNCHANGED <<setup, clock, running, stream_active, smoothing_enabled, filter_enabled,
                   sample_count, is_data_flowing, buffer_clear_time, stop_time,
                   bridge_vars, frame_vars>>

\* the animation timer calls update_plot; an exception leaves the callback.
\* The frames taken while the reader is paused.
UpdatePlot ==
    /\ running
    /\ ~stream_active
    /\ ingest.did = "paused"
    /\ frame.n < MaxFrames
    /\ LET drawn == update_plot(clock)
       IN /\ railed_percentages' = drawn.railed_percentages
          /\ fft_data' = drawn.fft_data
          /\ head_map_data' = drawn.head_map_data
          /\ frame' = drawn.frame
    /\ UNCHANGED <<setup, clock, running, stream_active, smoothing_enabled, filter_enabled,
                   data_buffer, sample_count, is_data_flowing, buffer_clear_time, ingest,
                   stop_time, bridge_vars>>

\* toggle_smoothing, lines 500-506
ToggleSmoothing ==
    /\ running
    /\ smoothing_enabled' = ~smoothing_enabled
    /\ UNCHANGED <<setup, clock, running, stream_active, filter_enabled,
                   data_buffer, sample_count, is_data_flowing, buffer_clear_time, ingest,
                   stop_time, bridge_vars, frame_vars>>

\* toggle_filter, lines 508-513
ToggleFilter ==
    /\ running
    /\ filter_enabled' = ~filter_enabled
    /\ UNCHANGED <<setup, clock, running, stream_active, smoothing_enabled,
                   data_buffer, sample_count, is_data_flowing, buffer_clear_time, ingest,
                   stop_time, bridge_vars, frame_vars>>

NextFrame ==
    \/ FrameFeed
    \/ UpdatePlot
    \/ ToggleSmoothing
    \/ ToggleFilter
    \/ ToggleDataStream
    \/ Tick

SpecFrame == InitFrame /\ [][NextFrame]_vars

\* ------------------------------- visualizer: frames beside the ingest thread
\* The animation timer runs update_plot on the main thread while the stdin
\* reader runs on its own: the interpreter may switch threads between any
\* two iterations of the loop of lines 345-357.
InitSnap ==
    /\ Globals /\ BRAINFLOW_AVAILABLE /\ cli = NoCli
    /\ VizGlobals
    /\ \E src \in started(FALSE, FALSE) :
          setup = [source |-> src, os_name |-> "posix", board_type |-> "cyton",
                   auto_start |-> TRUE, scipy |-> TRUE]
    /\ stream_active = setup.auto_start
    /\ ingest = [NoIngest EXCEPT !.pc = "loop"]

\* lines 315-345: update_plot takes the time and, for a non-empty buffer,
\* creates the iterator of the deque; over an empty buffer (line 343) the
\* frame reads the buffer no more
TraverseBegin ==
    /\ running
    /\ frame.status # "traversing"
    /\ frame.n < MaxFrames
    /\ IF Len(data_buffer) = 0
       THEN LET drawn == update_plot(clock)
            IN /\ railed_percentages' = drawn.railed_percentages
               /\ fft_data' = drawn.fft_data
               /\ head_map_data' = drawn.head_map_data
               /\ frame' = drawn.frame
       ELSE /\ frame' = [NoFrame EXCEPT !.status = "traversing", !.n = frame.n,
                                        !.now = clock, !.state = ingest.appends]
            /\ UNCHANGED <<railed_percentages, fft_data, head_map_data>>
    /\ UNCHANGED <<setup, clock, running, stream_active, smoothing_enabled, filter_enabled,
                   data_buffer, sample_count, is_data_flowing, buffer_clear_time, ingest,
                   stop_time, bridge_vars>>

\* lines 345-451: the rest of the loop and of the frame.  The iterator of a
\* deque raises RuntimeError("deque mutated during iteration") on its next
\* step, the last one included, once the deque's mutation count has changed.
TraverseEnd ==
    /\ frame.status = "traversing"
    /\ LET drawn == IF ingest.appends # frame.state
                    THEN [railed_percentages |-> railed_percentages,
                          fft_data |-> fft_data, head_map_data |-> head_map_data,
                          frame |-> [NoFrame EXCEPT !.status = "raised",
                                                    !.n = frame.n + 1, !.now = frame.now]]
                    ELSE render(frame.now, filter_enabled, smoothing_enabled)
       IN /\ railed_percentages' = drawn.railed_percentages
          /\ fft_data' = drawn.fft_data
          /\ head_map_data' = drawn.head_map_data
          /\ frame' = drawn.frame
    /\ UNCHANGED <<setup, clock, running, stream_active, smoothing_enabled, filter_enabled,
                   data_buffer, sample_count, is_data_flowing, buffer_clear_time, ingest,
                   stop_time, bridge_vars>>

NextSnap ==
    \/ StdinIterate
    \/ TraverseBegin
    \/ TraverseEnd
    \/ Tick

SpecSnap == InitSnap /\ [][NextSnap]_vars

\* ------------------------------------------------------------------- C23
\* C23: every relative timestamp of every channel window a frame extracts
\* lies between minus the window length and zero.
C23_RelativeTimesInWindow ==
    \A ch \in DOMAIN frame.times :
        \A i \in 1..Len(frame.times[ch]) :
            -TIME_WINDOW <= frame.times[ch][i] /\ frame.times[ch][i] <= 0

\* ------------------------------------------------------------------- C24
\* the buffer positions a window for channel ch has to show
Shown(ch) ==
    {i \in 1..Len(data_buffer) :
        /\ data_buffer[i].timestamp >= frame.now - TIME_WINDOW
        /\ data_buffer[i].w > ch - 1}

Rank(ch, i) == Cardinality({j \in Shown(ch) : j <= i})

\* C24: the window a frame extracts for a channel holds, in buffer order, one
\* entry for each buffered sample that is inside the time window and wide
\* enough for the channel, and the frame leaves the buffer as it was.
C24_WindowIsTheSelection ==
    /\ [](frame.n > 0 =>
            /\ DOMAIN frame.values = 1..channel_count
            /\ \A ch \in 1..channel_count :
                  /\ Len(frame.values[ch]) = Cardinality(Shown(ch))
                  /\ \A i \in Shown(ch) :
                        /\ frame.times[ch][Rank(ch, i)] = data_buffer[i].timestamp - frame.now
                        /\ frame.values[ch][Rank(ch, i)] = ValueAt(data_buffer[i], ch))
    /\ [][frame' # frame => data_buffer' = data_buffer]_vars

\* ------------------------------------------------------------------- C30
\* what a frame computes besides the trace
Derived(r) == <<r.railed_percentages, r.fft_data, r.head_map_data, r.frame.metrics>>

\* C30: for the same buffer and the same frame time the metrics, the decayed
\* rail percentages, the stored spectrum and the head-map data are the same
\* under all four settings of the two toggles, and flipping one toggle
\* changes neither the other one nor stream_active.
C30_TogglesDisplayOnly ==
    /\ [](\A filtering \in BOOLEAN, smoothing \in BOOLEAN :
             Derived(render(clock, filtering, smoothing))
                 = Derived(render(clock, FALSE, FALSE)))
    /\ [][/\ smoothing_enabled' # smoothing_enabled
               => UNCHANGED <<stream_active, filter_enabled>>
          /\ filter_enabled' # filter_enabled
               => UNCHANGED <<stream_active, smoothing_enabled>>]_vars

\* ------------------------------------------------------------------- C31
\* C31: for every channel, after any sequence of frames over any buffer
\* contents, the decayed rail percentage railed_percentages[ch] lies within
\* [0, 100].
C31_RailPercentageInRange ==
    \A ch \in DOMAIN railed_percentages :
        /\ railed_percentages[ch].den > 0
        /\ 0 <= railed_percentages[ch].num
        /\ railed_percentages[ch].num <= 100 * railed_percentages[ch].den

\* two frames over a fully railed window: 30, then 0.7 * 30 + 0.3 * 100 = 51
C31_Witness ==
    /\ frame.n = 2
    /\ \E ch \in 1..channel_count : railed_percentages[ch] = Rat(51, 1)

\* ------------------------------------------------------------------- C32
\* the values of a window beyond 0.95 times the scale, counted by position
Beyond(values) == {i \in 1..Len(values) : Abs(values[i]) * 100 > VERTICAL_SCALE * 95}

\* C32: analyze_signal returns all zeros for a window of fewer than 10
\* values; for 10 or more values its rail ratio is 100 times the number of
\* values whose absolute value strictly exceeds 0.95 times the scale, divided
\* by the window length (0 for an all-zero window, 100 when every value
\* exceeds the threshold).
C32_QualityEstimator ==
    \A ch \in DOMAIN frame.metrics :
        LET m == frame.metrics[ch]
            values == frame.values[ch]
        IN m.computed =>
              /\ Len(values) < 10 =>
                    m.rms_sq = Zero /\ m.rail_percentage = Zero /\ m.variance = Zero
              /\ Len(values) >= 10 =>
                    /\ m.rail_percentage = Rat(100 * Cardinality(Beyond(values)), Len(values))
                    /\ (\A i \in 1..Len(values) : values[i] = 0) => m.rail_percentage = Zero
                    /\ Beyond(values) = 1..Len(values) => m.rail_percentage = Rat(100, 1)

\* a frame that computed the metrics of a fully railed window of 12 values
C32_Witness ==
    \E ch \in DOMAIN frame.metrics :
        /\ frame.metrics[ch].computed
        /\ Len(frame.values[ch]) = 12
        /\ Beyond(frame.values[ch]) = 1..12
        /\ frame.metrics[ch].rail_percentage = Rat(100, 1)

\* ------------------------------------------------------------------- C36
\* the buffer holds lists only, so that every channel has a window
Readable == \A i \in 1..Len(data_buffer) : data_buffer[i].kind = "list"

\* C36: in each frame, for each channel whose window is non-empty, the
\* decayed rail percentage becomes 0.7 times its previous value plus 0.3 times
\* the frame's rail ratio; for a channel whose window is empty in that frame,
\* the decayed rail percentage, the readout and the indicator are left
\* unchanged.
C36_RailDecayPerFrame ==
    [][(frame'.n = frame.n + 1 /\ Readable) =>
          \A ch \in 1..channel_count :
              LET values == Window(data_buffer, ch, clock).values
                  old == railed_percentages[ch]
              IN IF values # << >>
                 THEN railed_percentages'[ch] =
                          Rat(7 * old.num * Len(values)
                                + 3 * 100 * Cardinality(Beyond(values)) * old.den,
                              10 * old.den * Len(values))
                 ELSE /\ railed_percentages'[ch] = old
                      /\ frame'.status = "drawn" => ~frame'.metrics[ch].computed]_vars

\* ------------------------------------------------------------------- C35
\* a step of the ingest task that appends a sample to the buffer
Appends ==
    /\ ingest'.lines > ingest.lines
    /\ ingest'.did \in {"json", "csv", "generated"}

\* C35: while the stream toggle is stopped the ingest task is suspended:
\* under every interleaving of the toggle callback with the ingest task, no
\* sample is appended to the buffer in a state where stream_active is false.
C35_NoAppendWhileStopped ==
    [][Appends => stream_active]_vars

\* ------------------------------------------------------------------- C38
\* C38: the renderer reads a consistent snapshot of the buffer: under every
\* interleaving of the ingest task with update_plot, no sample is appended or
\* evicted between the start and the end of one frame's traversal of the
\* buffer.
C38_ConsistentSnapshot ==
    [][frame.status = "traversing" => ~Appends]_vars

\* ------------------------------------------------------------------- C33
\* C33: the buffer has a single writer: in every run exactly one ingest task
\* is started (file replay if a file is given, else the synthetic generator
\* in test mode, else the stdin reader), and neither the renderer nor any
\* toggle callback appends to, removes from or reorders the buffer.
C33_SingleWriter ==
    /\ \A csv_file \in BOOLEAN, test_mode \in BOOLEAN :
          started(csv_file, test_mode) =
              {IF csv_file THEN "csv" ELSE IF test_mode THEN "test" ELSE "stdin"}
    /\ [][data_buffer' # data_buffer =>
             /\ ingest' # ingest
             /\ UNCHANGED <<frame_vars, stream_active, smoothing_enabled, filter_enabled>>]_vars

\* a frame was drawn over a non-empty buffer and both display toggles and the
\* stream toggle have been used
C33_Witness ==
    /\ frame.status = "drawn"
    /\ data_buffer # << >>
    /\ stream_active /\ ~smoothing_enabled /\ ~filter_enabled

\* ------------------------------------------------------------------- C37
\* the attempt on the tracked board, if one was tracked and not streaming,
\* and the attempts against both hardware configurations have all failed
AllAttemptsFailed ==
    /\ BothFailed(last)
    /\ (last.pre.current_board # NoBoard /\ ~last.pre.is_streaming) =>
          (\E i \in CallsOf(last, "start_stream", "cur") : ~last.calls[i].ok)

StartOutcome ==
    /\ (Ran("start_recording") /\ Status = "error") =>
          (current_board = NoBoard /\ current_board_id = NoId /\ ~is_streaming)
    /\ (Ran("start_recording") /\ Status = "success") =>
          (is_streaming /\ current_board # NoBoard)

\* C37: start_recording returns an error only after the attempt on the
\* tracked board (if one is tracked and not streaming) and the attempts
\* against both hardware configurations have all failed; after it returns an
\* error, current_board and current_board_id are None and is_streaming is
\* false, and after it returns success is_streaming is true and current_board
\* is not None.
C37_StartErrorAfterAllAttempts ==
    /\ (Ran("start_recording") /\ Status = "error") => AllAttemptsFailed
    /\ StartOutcome

\* C37 (amended): the same when the acquisition library was imported; without
\* it start_recording returns its error at once, having attempted nothing.
C37_StartErrorAfterAllAttemptsIfAvailable ==
    /\ (Ran("start_recording") /\ Status = "error" /\ BRAINFLOW_AVAILABLE) => AllAttemptsFailed
    /\ (Ran("start_recording") /\ ~BRAINFLOW_AVAILABLE) =>
          (Status = "error" /\ last.calls = << >> /\ last.attempts = << >>)
    /\ StartOutcome

\* an error after the tracked board and both configurations failed
C37_Witness ==
    /\ Ran("start_recording") /\ Status = "error" /\ BRAINFLOW_AVAILABLE
    /\ last.pre.current_board # NoBoard /\ ~last.pre.is_streaming
    /\ AllAttemptsFailed
    /\ current_board = NoBoard

\* ------------------------------------------------------------------- C40
\* the relay threads that have not returned: the one data_thread refers to
\* and those it no longer refers to
LiveRelayThreads == (IF data_thread = "alive" THEN 1 ELSE 0) + orphans

\* C40: across any sequence of start_visualizer and stop_visualizer calls
\* (including a join that times out while the relay thread is still blocked),
\* at most one live relay thread exists at any time (the visualizer process is
\* one or none by the type of visualizer_process), and once stop_visualizer
\* has returned, visualizer_process is None and stream_running is false, so
\* that no relay thread finds a visualizer to write to (line 707).
C40_OneVisualizerOneRelay ==
    /\ LiveRelayThreads <= 1
    /\ (last.returned /\ last.joins > 0) => (~visualizer_process /\ ~stream_running)

\* ------------------------------------------------------------------- C34
\* C34: assuming each get_board_data call returns and removes all samples
\* buffered by the board, every sample the relay task retrieves while
\* streaming is written to the visualizer's stdin exactly once and in
\* retrieval order: none is skipped and none is sent twice.
C34_RelayForwardsEachSampleOnce ==
    board_data.sent = board_data.retrieved

\* ------------------------------------------------------------------- C39
\* C39: assuming each get_board_data call returns and removes all samples
\* buffered by the board, every sample the board produces between a
\* successful start_recording and the bulk retrieval of the following
\* stop_recording is present in the data that stop_recording saves.
C39_CaptureComplete ==
    Ran("stop_recording") =>
        \A s \in 1..board_data.produced :
            /\ last.file.written
            /\ \E k \in 1..Len(last.pay) : last.pay[k] = s

====
